---------------------------- MODULE Spec2Model ----------------------------
(***************************************************************************)
(* A model of the agent-squad request router: the classifiers' retry loop  *)
(* and result parsing, the orchestrator's routing-and-dispatch pipeline    *)
(* and the vector-backed chat storage.                                     *)
(*                                                                         *)
(* Four components are modelled, each with its own specification over the  *)
(* same variables (a component that is not under analysis stays "off"):    *)
(*   SpecClassifier    the three classifier implementations                *)
(*   SpecOrchestrator  routeRequest / agentProcessRequest                  *)
(*   SpecStorage       PineconeStorage and QdrantStorage                   *)
(*   SpecAgent         processRequest of the Bedrock, Grok, Perplexity     *)
(*                     agents                                              *)
(*   SpecPrompt        the agents' system prompt templates                 *)
(***************************************************************************)
EXTENDS Integers, Sequences, FiniteSets, TLC

VARIABLES
    \* ---- classifier (one processRequest call) ----
    cls,            \* the classifier implementation handling the request
    cpc,            \* position in processRequest
    retry,          \* the loop flag `retry`
    executionCount, \* the loop counter `executionCount`
    outcomes,       \* what the model backend answered, call by call
    ctrace,         \* calls made and delays completed, in order
    cresult,        \* the value processRequest returned
    cerror,         \* the error processRequest threw
    agents,         \* Classifier.agents: id -> description
    \* ---- orchestrator (one routeRequest call) ----
    opc,            \* position in routeRequest
    osetup,         \* the last setDefaultAgent and the getDefaultAgent after it
    oconf,          \* the orchestrator's configuration and default agent
    oreq,           \* the request: streaming or not
    oclass,         \* what the classifier returned to the orchestrator
    oselected,      \* the agent selected for dispatch
    oevents,        \* fetches, invocations, saves, classifier calls, in order
    ostream,        \* the agent's stream: fragments still to come, fragments yielded
    oresp,          \* the AgentResponse returned (or the error raised)
    chats,          \* ChatStorage as the orchestrator sees it: agentId -> messages
    \* ---- vector storage (PineconeStorage, QdrantStorage) ----
    spc,            \* "off" or "on"
    backend,        \* the ChatStorage class in use
    records,        \* the index: the records upserted, in insertion order
    clock,          \* Date.now()
    uuids,          \* how many uuidv4() values went into stored ids (no two alike)
    saved,          \* the messages saved so far, in order, with their conversation
    fetched,        \* the fetch made since the last save: its call and its outcome
    \* ---- agents (BedrockLLMAgent, GrokAgent, PerplexityAgent) ----
    akind,          \* the agent class
    aconf,          \* its options: streaming, toolConfig
    apc,            \* position in processRequest
    areqs,          \* processRequest calls started
    aprompt,        \* promptTemplate, customVariables, systemPrompt
    arun,           \* the locals of the running processRequest / generator
    aout,           \* what processRequest returned, its stream, or what it threw
    \* ---- DynamoDbChatStorage ----
    docClient,      \* the document client the storage holds
    dcalls,         \* calls made on the storage so far
    dlog,           \* setDocClient calls and commands sent, in order
    \* ---- one context of a vector storage, by the number of its records ----
    pconv,          \* the (userId, sessionId) of the conversation
    pcount,         \* active records of the context, messages and summaries
    pstored,        \* completed storeMessage calls
    plast,          \* the last storeMessage call: its messageIndex, its summary
    pfetch,         \* the context the last fetchAllChats queried
    \* ---- two saveChatMessage calls in flight on one context ----
    rcall           \* per call: its position and its locals

cvars == <<cls, cpc, retry, executionCount, outcomes, ctrace, cresult, cerror, agents>>
ovars == <<opc, osetup, oconf, oreq, oclass, oselected, oevents, ostream, oresp, chats>>
svars == <<spc, backend, records, clock, uuids, saved, fetched>>
avars == <<akind, aconf, apc, areqs, aprompt, arun, aout>>
dvars == <<docClient, dcalls, dlog>>
pvars == <<pconv, pcount, pstored, plast, pfetch>>
rvars == <<rcall>>
vars == <<cvars, ovars, svars, avars, dvars, pvars, rvars>>

(***************************************************************************)
(* Bounds of the model.                                                    *)
(***************************************************************************)
MaxEntries == 2     \* entries in the model's `agents` array
MaxSaves == 3       \* saveChatMessage calls in one behaviour
MaxFragments == 3   \* fragments of one streamed answer
\* The MAX_MESSAGE_PAIRS_PER_AGENT the storage user configured (the default
\* of 100 would need more than 200 saves to reach).
MaxPairsConfigured == 1
MaxChunks == 4      \* chunks the backend streams during one request
MaxRequests == 2    \* processRequest calls on one agent
\* The toolMaxRecursions of an agent configured with tools.
ToolMaxRecursions == 3
MaxDynamoCalls == 4 \* calls made on one DynamoDbChatStorage
MaxStored == 205    \* storeMessage calls on one context

(***************************************************************************)
(* PART 1.  The classifiers.                                               *)
(***************************************************************************)
Classifiers == {"anthropicMulti", "anthropicSingle", "openai"}
Anthropic == {"anthropicMulti", "anthropicSingle"}

\* The hard-coded limit of the retry loop: `if (executionCount < 3)`.
MaxExecutions == 3
\* `await delay(executionCount * 500)`.
DelayUnitMs == 500
\* AgentSquadConfig.MAX_RETRIES, default configuration.
MAX_RETRIES == 3

NullAgent == "null"
Undefined == "undefined"
NaN == "NaN"

\* The registry the classifier resolves against, with each agent's s3details.
AgentIds == {"tech", "billing"}
S3Details == [tech |-> "bucket##tech.json", billing |-> ""]
\* s3details.indexOf("##") > 0
HasS3 == [tech |-> TRUE, billing |-> FALSE]
InitialAgents == [a \in AgentIds |-> "summary"]
S3Description == "s3 description"

\* Identifiers the model may name: registered ones and one that is not.
ModelAgentNames == AgentIds \cup {"ghost"}
RawConfidences == {"0.92", "high"}
NumericStrings == {"0.92", "0.3", "1.0"}

\* parseFloat: a numeric string is its number, anything else (a word,
\* undefined) is NaN.
ParseFloat(s) == IF s \in NumericStrings THEN s ELSE NaN

\* Classifier.getAgentById: the registered agent, or null.
getAgentById(id, ags) == IF id \in DOMAIN ags THEN id ELSE NullAgent

\* One element of the tool input. wf is isClassifierToolInput's verdict.
Malformed == [wf |-> FALSE, selected_agent |-> Undefined, confidence |-> Undefined]
Entries == {Malformed} \cup
    [wf : {TRUE}, selected_agent : ModelAgentNames, confidence : RawConfidences]

SeqsUpTo(S, n) == UNION {[1..k -> S] : k \in 0..n}

\* A tool input: either the single-intent shape (selected_agent, confidence at
\* the top, no `agents`) or the multi-intent shape (an `agents` array; the
\* top-level confidence is then normally absent).
ToolInputs ==
    [hasAgents : {FALSE}, agentsArr : {<<>>}, top : Entries]
    \cup
    [hasAgents : {TRUE}, agentsArr : SeqsUpTo(Entries, MaxEntries),
     top : {Malformed, [wf |-> FALSE, selected_agent |-> Undefined, confidence |-> "0.3"]}]

NoInput == [hasAgents |-> FALSE, agentsArr |-> <<>>, top |-> Malformed]

\* What one call of the model backend can produce:
\*   overloaded  an error whose error.type is "overloaded_error"
\*   apiError    an error carrying an `error` object of another type
\*   netError    an error without an `error` property
\*   response    a response; tool says whether it holds the analyzePrompt
\*               tool use; json whether the arguments parse (OpenAI);
\*               s3 the outcome of each fetchDescription the parse makes
BackendOutcomes ==
    [k : {"overloaded", "apiError", "netError"}, tool : {FALSE}, json : {TRUE},
     input : {NoInput}, s3 : {[i \in 1..MaxEntries |-> TRUE]}]
    \cup
    [k : {"response"}, tool : {FALSE}, json : {TRUE},
     input : {NoInput}, s3 : {[i \in 1..MaxEntries |-> TRUE]}]
    \cup
    [k : {"response"}, tool : {TRUE}, json : {FALSE},
     input : {NoInput}, s3 : {[i \in 1..MaxEntries |-> TRUE]}]
    \cup
    [k : {"response"}, tool : {TRUE}, json : {TRUE},
     input : ToolInputs, s3 : [1..MaxEntries -> BOOLEAN]]

Result(agent, conf) == [selectedAgent |-> agent, confidence |-> conf]
Parsed(err, results, ags) == [err |-> err, results |-> results, agents |-> ags]

\* The guard before the S3 fetch:
\*   selectedAgent && selectedAgent.s3details && s3details.indexOf("##") > 0
\* "TypeError" when the guard itself throws.
S3GuardUnguarded(selectedAgent) ==
    IF selectedAgent = NullAgent THEN "TypeError"
    ELSE IF HasS3[selectedAgent] THEN "fetch" ELSE "skip"

S3Guard(selectedAgent) ==
    IF selectedAgent = NullAgent THEN "skip"
    ELSE IF S3Details[selectedAgent] # "" /\ HasS3[selectedAgent] THEN "fetch"
    ELSE "skip"

\* The body of `for (const agent of input['agents'])`, from entry i on.
\* confOf(entry) is the confidence the implementation reads for the entry.
RECURSIVE MultiLoop(_, _, _, _, _, _)
MultiLoop(entries, i, s3, ags, acc, topConf) ==
    IF i > Len(entries) THEN Parsed("none", acc, ags)
    ELSE
      LET agent == entries[i]
          selectedAgent == getAgentById(agent.selected_agent, ags)
          guard == S3Guard(selectedAgent)
          conf == IF topConf = "entry" THEN agent.confidence ELSE topConf
      IN  IF ~agent.wf THEN Parsed("BadStructure", <<>>, ags)
          ELSE IF guard = "TypeError" THEN Parsed("TypeError", <<>>, ags)
          ELSE IF guard = "fetch" /\ ~s3[i] THEN Parsed("S3Error", <<>>, ags)
          ELSE MultiLoop(entries, i + 1, s3,
                         IF guard = "fetch"
                           THEN [ags EXCEPT ![selectedAgent] = S3Description]
                           ELSE ags,
                         Append(acc, Result(selectedAgent, ParseFloat(conf))),
                         topConf)

\* AnthropicClassifier (multi-intent): the try block after the model call.
AnthropicMultiParse(o, ags) ==
    IF ~o.tool THEN Parsed("NoToolUse", <<>>, ags)
    ELSE IF o.input.hasAgents
      THEN MultiLoop(o.input.agentsArr, 1, o.s3, ags, <<>>, "entry")
      ELSE Parsed("none", <<>>, ags)

\* AnthropicClassifier (single-intent): the try block after the model call.
AnthropicSingleParse(o, ags) ==
    IF ~o.tool THEN Parsed("NoToolUse", <<>>, ags)
    ELSE IF ~o.input.top.wf THEN Parsed("BadStructure", <<>>, ags)
    ELSE Parsed("none",
                <<Result(getAgentById(o.input.top.selected_agent, ags),
                         ParseFloat(o.input.top.confidence))>>,
                ags)

\* OpenAIClassifier: the try block after the model call. The confidence of
\* every result is read from toolInput.confidence, the top of the tool input.
OpenAIParse(o, ags) ==
    IF ~o.tool THEN Parsed("NoToolCall", <<>>, ags)
    ELSE IF ~o.json THEN Parsed("SyntaxError", <<>>, ags)
    ELSE IF o.input.hasAgents
      THEN MultiLoop(o.input.agentsArr, 1, o.s3, ags, <<>>, o.input.top.confidence)
      ELSE Parsed("none", <<>>, ags)

\* `executionCount * 500`
DelayMsConstant(count) == DelayUnitMs
DelayMs(count) == count * DelayUnitMs

\* The catch block of the Anthropic classifiers, for a caught error `err` at
\* execution `count`: "retry" (with the delay to await) or the error thrown.
\* Reading error.error.type of an error that has no `error` property is
\* itself a TypeError, thrown out of the catch block.
CatchDecision(act, thrown, ms) == [act |-> act, thrown |-> thrown, ms |-> ms]

AnthropicCatchSwallow(err, count) ==
    IF err = "overloaded"
      THEN IF count < MaxExecutions
             THEN CatchDecision("retry", "none", DelayMs(count))
             ELSE CatchDecision("throw", "overloaded", 0)
      ELSE CatchDecision("return", "none", 0)

AnthropicCatch(err, count) ==
    IF err = "overloaded"
      THEN IF count < MaxExecutions
             THEN CatchDecision("retry", "none", DelayMs(count))
             ELSE CatchDecision("throw", "overloaded", 0)
      ELSE IF err = "apiError" THEN CatchDecision("throw", "apiError", 0)
      ELSE CatchDecision("throw", "TypeError", 0)

Ev(e, a) == [ev |-> e, arg |-> a]

\* One iteration of `while (retry)`: the model call, the parse, the catch
\* block up to its `await delay(...)`.
AnthropicAttempt(parsed, o) ==
    LET count == executionCount + 1
        err == IF o.k # "response" THEN o.k ELSE parsed.err
        d == AnthropicCatch(err, count)
    IN  /\ executionCount' = count
        /\ outcomes' = Append(outcomes, o)
        /\ ctrace' = Append(ctrace, Ev("call", count))
        /\ IF err = "none"
             THEN /\ retry' = FALSE
                  /\ cpc' = "returned"
                  /\ cresult' = parsed.results
                  /\ agents' = parsed.agents
                  /\ cerror' = "none"
             ELSE /\ agents' = IF o.k = "response" THEN parsed.agents ELSE agents
                  /\ CASE d.act = "retry" ->
                            /\ retry' = TRUE
                            /\ cpc' = "delay"
                            /\ UNCHANGED <<cresult, cerror>>
                       [] d.act = "return" ->
                            /\ retry' = FALSE
                            /\ cpc' = "returned"
                            /\ cresult' = <<Result(NullAgent, "0")>>
                            /\ cerror' = "none"
                       [] OTHER ->
                            /\ retry' = FALSE
                            /\ cpc' = "thrown"
                            /\ cerror' = d.thrown
                            /\ UNCHANGED cresult

AnthropicMultiProcessRequest ==
    /\ cls = "anthropicMulti"
    /\ cpc = "call"
    /\ retry
    /\ \E o \in BackendOutcomes :
          /\ o.json
          /\ AnthropicAttempt(AnthropicMultiParse(o, agents), o)
    /\ UNCHANGED <<cls, ovars, svars, avars, dvars, pvars, rvars>>

AnthropicSingleProcessRequest ==
    /\ cls = "anthropicSingle"
    /\ cpc = "call"
    /\ retry
    /\ \E o \in BackendOutcomes :
          /\ o.json
          /\ AnthropicAttempt(AnthropicSingleParse(o, agents), o)
    /\ UNCHANGED <<cls, ovars, svars, avars, dvars, pvars, rvars>>

\* `await delay(t)` completes: the loop goes round.
DelayElapsed ==
    /\ cls \in Anthropic
    /\ cpc = "delay"
    /\ ctrace' = Append(ctrace, Ev("delay", DelayMs(executionCount)))
    /\ cpc' = "call"
    /\ UNCHANGED <<cls, retry, executionCount, outcomes, cresult, cerror, agents,
                   ovars, svars, avars, dvars, pvars, rvars>>

\* OpenAIClassifier.processRequest: one call, no loop; the catch block
\* rethrows whatever it caught.
OpenAIProcessRequest ==
    /\ cls = "openai"
    /\ cpc = "call"
    /\ \E o \in BackendOutcomes :
          LET parsed == OpenAIParse(o, agents)
              err == IF o.k # "response" THEN o.k ELSE parsed.err
          IN  /\ executionCount' = executionCount + 1
              /\ outcomes' = Append(outcomes, o)
              /\ ctrace' = Append(ctrace, Ev("call", executionCount + 1))
              /\ IF err = "none"
                   THEN /\ cpc' = "returned"
                        /\ cresult' = parsed.results
                        /\ agents' = parsed.agents
                        /\ cerror' = "none"
                   ELSE /\ cpc' = "thrown"
                        /\ cerror' = err
                        /\ agents' = IF o.k = "response" THEN parsed.agents ELSE agents
                        /\ UNCHANGED cresult
    /\ UNCHANGED <<cls, retry, ovars, svars, avars, dvars, pvars, rvars>>

(***************************************************************************)
(* PART 2.  The orchestrator: routeRequest, one request.                   *)
(* Classifier, agents and storage are stubs that answer or fail.           *)
(***************************************************************************)
ClassifierScope == "classifier"     \* the reserved pseudo-agent id
DefaultAgentId == "general"
Scopes == AgentIds \cup {DefaultAgentId, ClassifierScope}
RealAgents == AgentIds \cup {DefaultAgentId}

\* Texts are sequences of fragments; concatenation is \o.
Fragments == {"Hel", "lo"}
UserInput == <<"my laptop won't boot">>
NO_SELECTED_AGENT_MESSAGE == <<"I'm sorry, I couldn't determine how to handle your request.">>
CLASSIFICATION_ERROR_MESSAGE == <<"classification error message">>
GENERAL_ROUTING_ERROR_MSG_MESSAGE == <<"general routing error message">>
NoText == <<>>

Message(role, content) == [role |-> role, content |-> content]

\* The stored conversations a request may start from.
InitialChats(prior) ==
    [a \in Scopes |->
        IF prior /\ a = "tech"
          THEN <<Message("user", <<"earlier">>), Message("assistant", <<"answer">>)>>
          ELSE <<>>]

\* What the classifier hands the orchestrator: a ClassifierResult or an error.
NoClass == [err |-> FALSE, selectedAgent |-> NullAgent, confidence |-> Undefined]
ClassifierAnswers ==
    [err : {FALSE}, selectedAgent : AgentIds \cup {NullAgent}, confidence : {"0.92", "0.3"}]
    \cup {[err |-> TRUE, selectedAgent |-> NullAgent, confidence |-> Undefined]}

\* What an agent's processRequest produces: a failure, or its answer as the
\* fragments it is made of (one message, or a stream of them).
AgentAnswers ==
    [err : {FALSE}, out : UNION {[1..k -> Fragments] : k \in 1..MaxFragments}]
    \cup {[err |-> TRUE, out |-> NoText]}

NoResp == [kind |-> "none", output |-> NoText, streaming |-> FALSE,
           agentId |-> NullAgent, confidence |-> Undefined, error |-> "none"]
ErrorResp(name, text) ==
    [kind |-> "error", output |-> text, streaming |-> FALSE,
     agentId |-> NullAgent, confidence |-> Undefined, error |-> name]
NoAgentResp ==
    [kind |-> "message", output |-> NO_SELECTED_AGENT_MESSAGE, streaming |-> FALSE,
     agentId |-> NullAgent, confidence |-> Undefined, error |-> "none"]

\* The AgentResponse for a dispatched request: metadata from the classifier
\* result, output the message or the live stream.
AgentResponseNoConfidence(agent, c, streaming, output) ==
    [kind |-> IF streaming THEN "stream" ELSE "message", output |-> output,
     streaming |-> streaming, agentId |-> agent, confidence |-> Undefined,
     error |-> "none"]

AgentResponse(agent, c, streaming, output) ==
    [kind |-> IF streaming THEN "stream" ELSE "message", output |-> output,
     streaming |-> streaming, agentId |-> agent,
     confidence |-> IF c.selectedAgent = NullAgent THEN Undefined ELSE c.confidence,
     error |-> "none"]

Decision(act, agent, resp) == [act |-> act, agent |-> agent, resp |-> resp]

\* Classification failed: terminal for the request.
OnClassificationErrorFallBack(conf) ==
    IF conf.defaultAgent # NullAgent
      THEN Decision("dispatch", conf.defaultAgent, NoResp)
      ELSE Decision("fail", NullAgent,
                    ErrorResp("ClassificationError", CLASSIFICATION_ERROR_MESSAGE))

OnClassificationError(conf) ==
    Decision("fail", NullAgent,
             ErrorResp("ClassificationError", CLASSIFICATION_ERROR_MESSAGE))

\* The classifier selected no agent: the default agent or the fallback
\* message, per USE_DEFAULT_AGENT_IF_NONE_IDENTIFIED.
OnNoAgentAlwaysDefault(conf) ==
    IF conf.defaultAgent = NullAgent
      THEN Decision("fail", NullAgent, ErrorResp("ConfigurationError", NoText))
      ELSE Decision("dispatch", conf.defaultAgent, NoResp)

OnNoAgentNeverDefault(conf) ==
    Decision("answer", NullAgent, NoAgentResp)

OnNoAgent(conf) ==
    IF conf.useDefault
      THEN IF conf.defaultAgent = NullAgent
             THEN Decision("fail", NullAgent, ErrorResp("ConfigurationError", NoText))
             ELSE Decision("dispatch", conf.defaultAgent, NoResp)
      ELSE Decision("answer", NullAgent, NoAgentResp)

\* Step 2 of routeRequest: the agent selection policy.
SelectAgent(c, conf) ==
    IF c.err THEN OnClassificationError(conf)
    ELSE IF c.selectedAgent = NullAgent THEN OnNoAgent(conf)
    ELSE Decision("dispatch", c.selectedAgent, NoResp)

OEv(e, a) == [ev |-> e, scope |-> a]
NoStream == [out |-> NoText, pending |-> NoText, yielded |-> NoText]

SaveTurn(ch, agent, text) ==
    [ch EXCEPT ![agent] =
        @ \o <<Message("user", UserInput), Message("assistant", text)>>]

\* No setDefaultAgent made yet, no getDefaultAgent answered since.
NoSetup == [set |-> NullAgent, got |-> "none"]

\* setDefaultAgent(agent), during setup: before a request is in flight.
SetDefaultAgent ==
    /\ opc = "start"
    /\ \E a \in RealAgents :
          /\ oconf' = [oconf EXCEPT !.defaultAgent = a]
          /\ osetup' = [set |-> a, got |-> "none"]
    /\ UNCHANGED <<opc, oreq, oclass, oselected, oevents, ostream, oresp, chats,
                   cvars, svars, avars, dvars, pvars, rvars>>

\* What getDefaultAgent() answers: the default agent, or a configuration
\* error when none is set.
getDefaultAgentUnchecked(conf) == conf.defaultAgent

getDefaultAgent(conf) ==
    IF conf.defaultAgent = NullAgent THEN "NotConfiguredError" ELSE conf.defaultAgent

GetDefaultAgent ==
    /\ opc = "start"
    /\ osetup' = [osetup EXCEPT !.got = getDefaultAgent(oconf)]
    /\ UNCHANGED <<opc, oconf, oreq, oclass, oselected, oevents, ostream, oresp,
                   chats, cvars, svars, avars, dvars, pvars, rvars>>

\* routeRequest begins: the classifier-scoped history is fetched.
FetchClassifierHistory ==
    /\ opc = "start"
    /\ oevents' = Append(oevents, OEv("fetch", ClassifierScope))
    /\ \E ok \in BOOLEAN :
          IF ok THEN opc' = "classify" /\ UNCHANGED oresp
          ELSE opc' = "done" /\ oresp' = ErrorResp("StorageError", NoText)
    /\ UNCHANGED <<osetup, oconf, oreq, oclass, oselected, ostream, chats, cvars, svars, avars, dvars, pvars, rvars>>

\* Classifier.processRequest is called once and the selection policy applied.
ClassifyAndSelect ==
    /\ opc = "classify"
    /\ \E c \in ClassifierAnswers :
          LET d == SelectAgent(c, oconf)
              ev == Append(oevents, OEv("classify", ClassifierScope))
          IN  /\ oclass' = c
              /\ CASE d.act = "dispatch" ->
                        /\ oselected' = d.agent
                        /\ opc' = "fetch"
                        /\ oevents' = ev
                        /\ UNCHANGED <<oresp, chats>>
                   [] d.act = "fail" ->
                        /\ opc' = "done"
                        /\ oresp' = d.resp
                        /\ oevents' = ev
                        /\ UNCHANGED <<oselected, chats>>
                   [] OTHER ->
                        \* the fallback message; the raw user input may be
                        \* recorded against the classifier pseudo-agent
                        /\ opc' = "done"
                        /\ oresp' = d.resp
                        /\ \E rec \in BOOLEAN :
                              IF rec
                                THEN /\ chats' = [chats EXCEPT ![ClassifierScope] =
                                                    Append(@, Message("user", UserInput))]
                                     /\ oevents' = Append(ev, OEv("save", ClassifierScope))
                                ELSE /\ oevents' = ev
                                     /\ UNCHANGED chats
                        /\ UNCHANGED oselected
    /\ UNCHANGED <<osetup, oconf, oreq, ostream, cvars, svars, avars, dvars, pvars, rvars>>

\* agentProcessRequest: the selected agent's history is fetched.
FetchAgentHistory ==
    /\ opc = "fetch"
    /\ oevents' = Append(oevents, OEv("fetch", oselected))
    /\ \E ok \in BOOLEAN :
          IF ok THEN opc' = "invoke" /\ UNCHANGED oresp
          ELSE opc' = "done" /\ oresp' = ErrorResp("StorageError", NoText)
    /\ UNCHANGED <<osetup, oconf, oreq, oclass, oselected, ostream, chats, cvars, svars, avars, dvars, pvars, rvars>>

\* Agent.processRequest is invoked. A streaming agent hands back a live
\* stream, which is returned to the caller at once.
InvokeAgent ==
    /\ opc = "invoke"
    /\ oevents' = Append(oevents, OEv("invoke", oselected))
    /\ \E a \in AgentAnswers :
          IF a.err
            THEN /\ opc' = "done"
                 /\ oresp' = ErrorResp("AgentExecutionError",
                                       GENERAL_ROUTING_ERROR_MSG_MESSAGE)
                 /\ UNCHANGED ostream
            ELSE /\ ostream' = [out |-> a.out,
                                pending |-> IF oreq.streaming THEN a.out ELSE NoText,
                                yielded |-> NoText]
                 /\ IF oreq.streaming
                      THEN /\ opc' = "streaming"
                           /\ oresp' = AgentResponse(oselected, oclass, TRUE, NoText)
                      ELSE /\ opc' = "persist"
                           /\ UNCHANGED oresp
    /\ UNCHANGED <<osetup, oconf, oreq, oclass, oselected, chats, cvars, svars, avars, dvars, pvars, rvars>>

\* Non-streaming: the turn is saved, then the response returned.
PersistTurn ==
    /\ opc = "persist"
    /\ oevents' = Append(oevents, OEv("save", oselected))
    /\ opc' = "done"
    /\ \E ok \in BOOLEAN :
          IF ok
            THEN /\ chats' = SaveTurn(chats, oselected, ostream.out)
                 /\ oresp' = AgentResponse(oselected, oclass, FALSE, ostream.out)
            ELSE /\ oresp' = ErrorResp("StorageError", NoText)
                 /\ UNCHANGED chats
    /\ UNCHANGED <<osetup, oconf, oreq, oclass, oselected, ostream, cvars, svars, avars, dvars, pvars, rvars>>

\* Whether the turn is saved when the caller pulls from a stream with
\* `pending` left: only once nothing is left, i.e. the stream is drained.
SaveOnPullEager(pending) == TRUE
SaveOnPull(pending) == pending = NoText

\* Streaming: the caller pulls the next item of the stream; the pull that
\* finds the stream finished saves the accumulated text.
PullStream ==
    /\ opc = "streaming"
    /\ IF ostream.pending # NoText
         THEN /\ ostream' = [ostream EXCEPT !.pending = Tail(@),
                                            !.yielded = Append(@, Head(ostream.pending))]
              /\ oresp' = [oresp EXCEPT !.output = ostream'.yielded]
              /\ opc' = "streaming"
         ELSE /\ opc' = "done"
              /\ UNCHANGED <<ostream, oresp>>
    /\ IF SaveOnPull(ostream.pending)
         THEN /\ chats' = SaveTurn(chats, oselected, ostream'.yielded)
              /\ oevents' = Append(oevents, OEv("save", oselected))
         ELSE UNCHANGED <<chats, oevents>>
    /\ UNCHANGED <<osetup, oconf, oreq, oclass, oselected, cvars, svars, avars, dvars, pvars, rvars>>

\* Streaming: the agent's backend fails in mid-stream.
StreamFails ==
    /\ opc = "streaming"
    /\ ostream.pending # NoText
    /\ opc' = "done"
    /\ oresp' = ErrorResp("AgentExecutionError", GENERAL_ROUTING_ERROR_MSG_MESSAGE)
    /\ UNCHANGED <<osetup, oconf, oreq, oclass, oselected, oevents, ostream, chats,
                   cvars, svars, avars, dvars, pvars, rvars>>

(***************************************************************************)
(* PART 3.  PineconeStorage.                                               *)
(* Strings built from parts are kept as their parts: a session id is the   *)
(* sequence of its "#"-separated pieces, a context id or record id the     *)
(* record of what it was formatted from.                                   *)
(***************************************************************************)
Backends == {"pinecone", "qdrant"}
PruneLimitChannel == 100    \* maxActiveMessages for a channel thread
PruneLimitDM == 200         \* maxActiveMessages for a direct-message context
SummaryEvery == 50          \* messageIndex % 50 === 0
SummaryMinMessages == 10    \* if (messages.length < 10) return
SummaryWindow == 50         \* getRecentMessages(contextId, 50)
RecentLimit == 1000         \* getRecentMessages(contextId, 1000)

\* The conversations of the model: (userId, sessionId, agentId). u1's
\* direct-message session, and a channel thread shared by two users.
Conversations ==
    { [userId |-> <<"u1">>, sessionId |-> <<"u1">>, agentId |-> "tech"],
      [userId |-> <<"u1">>, sessionId |-> <<"c1", "t1">>, agentId |-> "tech"],
      [userId |-> <<"u2">>, sessionId |-> <<"c1", "t1">>, agentId |-> "billing"] }
Roles == {"user", "assistant"}
\* The callers save a user message, then the assistant's answer, in turn.
TurnRole(n) == IF n % 2 = 0 THEN "user" ELSE "assistant"

\* sessionId.split("#"): two parts are channel and thread, anything else is
\* the whole session id twice.
parseSessionId(sessionId) ==
    IF Len(sessionId) = 2 THEN << <<sessionId[1]>>, <<sessionId[2]>> >>
    ELSE <<sessionId, sessionId>>

ContextId(kind, a, b) == [kind |-> kind, a |-> a, b |-> b]

\* generateContextId(message)
generateContextId(message) ==
    IF message.isDM THEN ContextId("dm", message.userId, <<>>)
    ELSE ContextId("channel", message.channelId, message.threadTs)

\* formContextId(userId, channelId, threadTs)
formContextId(userId, channelId, threadTs) ==
    IF userId = channelId THEN ContextId("dm", userId, <<>>)
    ELSE ContextId("channel", channelId, threadTs)

\* getContextType(message)
getContextType(message) == IF ~message.isDM THEN "channel_thread" ELSE "user_dm"

\* generatePineconeId: the context id followed by a piece of a new uuid.
generatePineconeId(channelId, threadTs, userId, uuid) ==
    [ctx |-> formContextId(userId, channelId, threadTs), unique |-> uuid]

\* A ConversationMessage as the caller holds it: content is [{text}].
TextMessage(role, text) == [role |-> role, shape |-> "text-block", text |-> text]
\* A message as fetchChat builds it: content is [metadata.content].
FetchedMessage(role, text) == [role |-> role, shape |-> "string", text |-> text]

Indices(recs) == 1..Len(recs)
\* The records a filtered query matches: contextId and isActive.
ActiveOf(recs, ctx) == {i \in Indices(recs) : recs[i].contextId = ctx /\ recs[i].isActive}

\* getRecentMessages(contextId, limit): a top-K query with the zero vector;
\* which K of the matching records come back, and in which order, is the
\* index's choice. The possible answers, as sets of record positions.
getRecentMessages(recs, ctx, limit) ==
    LET m == ActiveOf(recs, ctx)
    IN  IF Cardinality(m) <= limit THEN {m}
        ELSE {x \in SUBSET m : Cardinality(x) = limit}

\* upsert: a record with a known id is replaced, a new one added.
upsert(recs, r) ==
    IF \E i \in Indices(recs) : recs[i].id = r.id
      THEN [i \in Indices(recs) |-> IF recs[i].id = r.id THEN r ELSE recs[i]]
      ELSE Append(recs, r)

\* deactivateOldMessages(contextId, keepRecent), given the answer `recent` of
\* its getRecentMessages: everything past the first keepRecent of the answer
\* is deactivated; `drop` is that tail.
deactivateOldMessages(recs, recent, keepRecent, drop) ==
    IF Cardinality(recent) <= keepRecent THEN recs
    ELSE [i \in Indices(recs) |->
            IF i \in drop THEN [recs[i] EXCEPT !.isActive = FALSE] ELSE recs[i]]

DropChoices(recent, keepRecent) ==
    IF Cardinality(recent) <= keepRecent THEN {{}}
    ELSE {x \in SUBSET recent : Cardinality(x) = Cardinality(recent) - keepRecent}

\* createContextSummary(contextId), given the answer `recent` of its
\* getRecentMessages(contextId, 50).
createContextSummary(recs, ctx, recent, uuid, now) ==
    IF Cardinality(recent) < SummaryMinMessages THEN recs
    ELSE upsert(recs,
           [id |-> [ctx |-> ContextId("none", <<>>, <<>>), unique |-> uuid],
            contextId |-> ctx,
            contextType |-> IF ctx.kind = "channel" THEN "channel_thread" ELSE "user_dm",
            userId |-> <<"system">>, content |-> 0, messageType |-> "bot",
            timestamp |-> now, messageIndex |-> -1, isActive |-> TRUE,
            agentId |-> "none", type |-> "summary"])

\* The outcome of a fetch: the call (op, conv), the number of saves before it,
\* whether it threw, the backend operation that failed during it, and the
\* messages and summary it returned (summary: <<>> is undefined).
Fetched(op, conv, at, threw, failed, result, summary) ==
    [done |-> TRUE, op |-> op, conv |-> conv, at |-> at, threw |-> threw,
     failed |-> failed, result |-> result, summary |-> summary]

NoFetch ==
    [done |-> FALSE, op |-> "none", conv |-> CHOOSE c \in Conversations : TRUE,
     at |-> 0, threw |-> FALSE, failed |-> "none", result |-> <<>>,
     summary |-> <<>>]

\* Fetches read the index and leave it alone, so one fetch is followed from
\* each state of the index: the next fetch comes after the next save.
FetchDue == ~fetched.done

\* saveChatMessage: the message record is built, storeMessage upserts it,
\* prunes the context and, on every 50th message, summarises it; the call
\* returns [newMessage].
SaveChatMessage ==
    /\ spc = "on"
    /\ backend = "pinecone"
    /\ Len(saved) < MaxSaves
    /\ \E c \in Conversations, role \in {TurnRole(Len(saved))}, tick \in 0..1 :
        LET text == Len(saved) + 1
            newMessage == TextMessage(role, text)
            parts == parseSessionId(c.sessionId)
            message == [id |-> generatePineconeId(parts[1], parts[2], c.userId, uuids + 1),
                        userId |-> c.userId, channelId |-> parts[1],
                        threadTs |-> parts[2], content |-> newMessage.text,
                        timestamp |-> clock,
                        messageType |-> IF newMessage.role = "user" THEN "user" ELSE "bot",
                        agentId |-> c.agentId,
                        isDM |-> (c.userId = c.sessionId)]
            contextId == generateContextId(message)
            contextType == getContextType(message)
            maxActiveMessages ==
                IF contextType = "channel_thread" THEN PruneLimitChannel ELSE PruneLimitDM
        IN  \E messageIndex \in {Cardinality(recents) :
                    recents \in getRecentMessages(records, contextId, RecentLimit)} :
            LET stored == upsert(records,
                    [id |-> message.id, contextId |-> contextId,
                     contextType |-> contextType, userId |-> message.userId,
                     content |-> message.content, messageType |-> message.messageType,
                     timestamp |-> message.timestamp, messageIndex |-> messageIndex,
                     isActive |-> TRUE, agentId |-> message.agentId, type |-> "message"])
                summarise == messageIndex > 0 /\ messageIndex % SummaryEvery = 0
            IN  \E pruned \in UNION {
                      {deactivateOldMessages(stored, recent2, maxActiveMessages, drop) :
                          drop \in DropChoices(recent2, maxActiveMessages)} :
                      recent2 \in getRecentMessages(stored, contextId, RecentLimit)} :
                \E summarised \in
                      {createContextSummary(pruned, contextId, recent3,
                                            uuids + 2, clock + tick) :
                          recent3 \in getRecentMessages(pruned, contextId, SummaryWindow)} :
                      /\ records' = IF summarise THEN summarised ELSE pruned
                      /\ uuids' = uuids + 2
                      /\ clock' = clock + tick
                      /\ saved' = Append(saved, [conv |-> c, message |-> newMessage,
                                                 returned |-> <<newMessage>>])
    /\ fetched' = NoFetch
    /\ UNCHANGED <<spc, backend, cvars, ovars, avars, dvars, pvars, rvars>>

\* The body of fetchChat once the id to look up is known.
fetchById(recs, id) ==
    LET hit == {i \in Indices(recs) : recs[i].id = id}
    IN  IF hit = {} THEN <<>>
        ELSE LET r == recs[CHOOSE i \in hit : TRUE]
             IN  <<FetchedMessage(IF r.messageType = "user" THEN "user" ELSE "assistant",
                                  r.content)>>

\* fetchChat(userId, sessionId): the record whose id is generatePineconeId of
\* the conversation -- which draws a new uuid -- is fetched by id. The id is
\* looked up and dropped, so the uuid it used is not counted.
FetchChat ==
    /\ spc = "on"
    /\ backend = "pinecone"
    /\ FetchDue
    /\ \E c \in Conversations :
        LET parts == parseSessionId(c.sessionId)
            id == generatePineconeId(parts[1], parts[2], c.userId, uuids + 1)
        IN  \E failed \in {"none", "fetch"} :
              fetched' = IF failed = "none"
                           THEN Fetched("fetchChat", c, Len(saved), FALSE, failed,
                                        fetchById(records, id), <<>>)
                           ELSE Fetched("fetchChat", c, Len(saved), TRUE, failed,
                                        <<>>, <<>>)
    /\ UNCHANGED <<spc, backend, records, clock, uuids, saved, cvars, ovars, avars, dvars, pvars, rvars>>

\* this.maxCount = maxCount || 20, for a storage built without a maxCount.
MaxCount == 20
\* Math.floor(maxResults * 0.7)
SimilarShare(maxResults) == (maxResults * 7) \div 10

\* Every order in which the elements of a set may be listed.
Orderings(S) ==
    {q \in [1..Cardinality(S) -> S] : \A i, j \in 1..Cardinality(S) : i # j => q[i] # q[j]}

Take(q, n) == IF n <= 0 THEN <<>> ELSE SubSeq(q, 1, IF n < Len(q) THEN n ELSE Len(q))

\* The last n elements: q.slice(-n).
LastN(q, n) == IF Len(q) <= n THEN q ELSE SubSeq(q, Len(q) - n + 1, Len(q))

RECURSIVE Dedup(_, _)
\* Deduplicate by id, keeping first occurrences: acc is what was kept so far.
Dedup(q, acc) ==
    IF q = <<>> THEN acc
    ELSE IF \E i \in 1..Len(acc) : acc[i] = Head(q) THEN Dedup(Tail(q), acc)
         ELSE Dedup(Tail(q), Append(acc, Head(q)))

\* Array.prototype.sort with (a, b) => a.timestamp - b.timestamp: a stable
\* sort, so records with equal timestamps keep the order they came in.
\* InsertByTimestamp puts x behind every element that is not later than it.
InsertByTimestamp(recs, sorted, x) ==
    LET before == {i \in 1..Len(sorted) : recs[sorted[i]].timestamp <= recs[x].timestamp}
        k == Cardinality(before)
    IN  SubSeq(sorted, 1, k) \o <<x>> \o SubSeq(sorted, k + 1, Len(sorted))

RECURSIVE SortByTimestamp(_, _, _)
SortByTimestamp(recs, q, acc) ==
    IF q = <<>> THEN acc
    ELSE SortByTimestamp(recs, Tail(q), InsertByTimestamp(recs, acc, Head(q)))

\* What getRelevantContext makes of the two query answers (sequences of
\* record positions): combine, deduplicate, sort by timestamp, keep the last
\* maxResults.
CombineContext(recs, similar, recent, maxResults) ==
    LastN(SortByTimestamp(recs, Dedup(similar \o recent, <<>>), <<>>), maxResults)

\* The answers a filtered top-K query of the Pinecone index may give: topK of
\* the matching records, ranked by a similarity the model does not fix.
PineconeQuery(recs, ctx, topK) ==
    UNION {Orderings(x) : x \in getRecentMessages(recs, ctx, topK)}

\* getContextSummary: the content of an active summary record of the
\* context, <<>> (undefined) when there is none.
SummaryChoices(recs, ctx) ==
    LET m == {i \in ActiveOf(recs, ctx) : recs[i].type = "summary"}
    IN  IF m = {} THEN {<<>>} ELSE {<<recs[i].content>> : i \in m}

\* The messages fetchAllChats maps the context's records to.
HistoryMessage(r) ==
    [role |-> IF r.messageType = "user" THEN "user" ELSE "assistant",
     shape |-> "text-block", text |-> r.content]

HistoryOf(recs, q) == [k \in 1..Len(q) |-> HistoryMessage(recs[q[k]])]

\* The backend operations of a fetchAllChats, in the order they are made.
FetchSteps == {"none", "embedding", "search", "recent", "summary"}

\* PineconeStorage.fetchAllChats(userId, sessionId, query), with
\* getRelevantContext: a failure of any operation is rethrown.
FetchAllChats ==
    /\ spc = "on"
    /\ backend = "pinecone"
    /\ FetchDue
    /\ \E c \in Conversations, failed \in FetchSteps :
        LET parts == parseSessionId(c.sessionId)
            contextId == generateContextId(
                [userId |-> c.userId, channelId |-> parts[1], threadTs |-> parts[2],
                 isDM |-> (c.userId = parts[1])])
        IN  IF failed # "none"
              THEN fetched' = Fetched("fetchAllChats", c, Len(saved), TRUE, failed,
                                      <<>>, <<>>)
              ELSE \E messages \in UNION {
                        {CombineContext(records, matches, recentMessages, MaxCount) :
                            recentMessages \in PineconeQuery(records, contextId,
                                                             MaxCount - Len(matches))} :
                        matches \in PineconeQuery(records, contextId,
                                                  SimilarShare(MaxCount))} :
                   \E summary \in SummaryChoices(records, contextId) :
                     fetched' = Fetched("fetchAllChats", c, Len(saved), FALSE, failed,
                                        HistoryOf(records, messages), summary)
    /\ UNCHANGED <<spc, backend, records, clock, uuids, saved, cvars, ovars, avars, dvars, pvars, rvars>>

(***************************************************************************)
(* QdrantStorage. parseSessionId, generateContextId, formContextId and     *)
(* getContextType are the same code as PineconeStorage's.                  *)
(***************************************************************************)
\* client.scroll with the contextId / isActive filter, order_by timestamp
\* desc and a limit: the first `limit` of the matching points, newest first;
\* points with equal timestamps come in an order the model does not fix.
QdrantScroll(recs, ctx, limit) ==
    {Take(q, limit) : q \in {o \in Orderings(ActiveOf(recs, ctx)) :
        \A i, j \in 1..Len(o) : i < j => recs[o[i]].timestamp >= recs[o[j]].timestamp}}

\* QdrantStorage.getRecentMessages(contextId, limit)
QdrantGetRecentMessages(recs, ctx, limit) == QdrantScroll(recs, ctx, limit)

\* QdrantStorage.searchSimilar: at most `limit` of the matching points, those
\* whose score passes the threshold, ranked by a score the model does not fix.
searchSimilar(recs, ctx, limit) ==
    UNION {Orderings(x) : x \in {y \in SUBSET ActiveOf(recs, ctx) : Cardinality(y) <= limit}}

\* QdrantStorage.deactivateOldMessages given the answer `messages` of its
\* scroll: messages.slice(keepRecent) are set inactive.
QdrantDeactivateOldMessages(recs, messages, keepRecent) ==
    IF Len(messages) <= keepRecent THEN recs
    ELSE LET drop == {messages[k] : k \in (keepRecent + 1)..Len(messages)}
         IN  [i \in Indices(recs) |->
                IF i \in drop THEN [recs[i] EXCEPT !.isActive = FALSE] ELSE recs[i]]

\* QdrantStorage.saveChatMessage with storeMessage: the point gets a uuid as
\* its id; the call returns [newMessage].
QdrantSaveChatMessage ==
    /\ spc = "on"
    /\ backend = "qdrant"
    /\ Len(saved) < MaxSaves
    /\ \E c \in Conversations, role \in {TurnRole(Len(saved))}, tick \in 0..1 :
        LET text == Len(saved) + 1
            newMessage == TextMessage(role, text)
            parts == parseSessionId(c.sessionId)
            message == [userId |-> c.userId, channelId |-> parts[1],
                        threadTs |-> parts[2], content |-> newMessage.text,
                        timestamp |-> clock,
                        messageType |-> IF newMessage.role = "user" THEN "user" ELSE "bot",
                        agentId |-> c.agentId,
                        isDM |-> (c.userId = c.sessionId)]
            contextId == generateContextId(message)
            contextType == getContextType(message)
            maxActiveMessages ==
                IF contextType = "channel_thread" THEN PruneLimitChannel ELSE PruneLimitDM
        IN  \E messageIndex \in {Len(recentMessages) : recentMessages \in
                    QdrantGetRecentMessages(records, contextId, RecentLimit)} :
            LET stored == upsert(records,
                    [id |-> [ctx |-> ContextId("none", <<>>, <<>>), unique |-> uuids + 1],
                     contextId |-> contextId,
                     contextType |-> contextType, userId |-> message.userId,
                     content |-> message.content, messageType |-> message.messageType,
                     timestamp |-> message.timestamp, messageIndex |-> messageIndex,
                     isActive |-> TRUE, agentId |-> message.agentId, type |-> "message"])
                summarise == messageIndex > 0 /\ messageIndex % SummaryEvery = 0
            IN  \E pruned \in
                      {QdrantDeactivateOldMessages(stored, allMessages, maxActiveMessages) :
                          allMessages \in QdrantScroll(stored, contextId, RecentLimit)} :
                \E summarised \in
                      {createContextSummary(pruned, contextId,
                                            {recent3[k] : k \in 1..Len(recent3)},
                                            uuids + 2, clock + tick) :
                          recent3 \in QdrantGetRecentMessages(pruned, contextId,
                                                              SummaryWindow)} :
                      /\ records' = IF summarise THEN summarised ELSE pruned
                      /\ uuids' = uuids + 2
                      /\ clock' = clock + tick
                      /\ saved' = Append(saved, [conv |-> c, message |-> newMessage,
                                                 returned |-> <<newMessage>>])
    /\ fetched' = NoFetch
    /\ UNCHANGED <<spc, backend, cvars, ovars, avars, dvars, pvars, rvars>>

\* The message QdrantStorage.fetchChat builds: content is payload.content,
\* the stored string itself.
QdrantFetchedMessage(r) ==
    [role |-> IF r.messageType = "user" THEN "user" ELSE "assistant",
     shape |-> "bare-string", text |-> r.content]

\* getPoint: client.query(collection, {query: id}) with the context id, no
\* filter; point[0] of the answer is a stored point or undefined (0).
getPoint(recs) == {0} \cup Indices(recs)

\* QdrantStorage.fetchChat(userId, sessionId): point.payload is read without
\* a check, so an undefined point is a TypeError.
QdrantFetchChat ==
    /\ spc = "on"
    /\ backend = "qdrant"
    /\ FetchDue
    /\ \E c \in Conversations, failed \in {"none", "query"}, point \in getPoint(records) :
        fetched' = IF failed # "none" \/ point = 0
                     THEN Fetched("fetchChat", c, Len(saved), TRUE, failed, <<>>, <<>>)
                     ELSE Fetched("fetchChat", c, Len(saved), FALSE, failed,
                                  <<QdrantFetchedMessage(records[point])>>, <<>>)
    /\ UNCHANGED <<spc, backend, records, clock, uuids, saved, cvars, ovars, avars, dvars, pvars, rvars>>

\* QdrantStorage.fetchAllChats(userId, sessionId, query), with
\* getRelevantContext: the context id is built from a message without isDM;
\* a failure is rethrown, except in getContextSummary, which answers
\* undefined instead.
QdrantFetchAllChats ==
    /\ spc = "on"
    /\ backend = "qdrant"
    /\ FetchDue
    /\ \E c \in Conversations, failed \in FetchSteps :
        LET parts == parseSessionId(c.sessionId)
            contextId == generateContextId(
                [userId |-> c.userId, channelId |-> parts[1], threadTs |-> parts[2],
                 isDM |-> FALSE])
        IN  IF failed \notin {"none", "summary"}
              THEN fetched' = Fetched("fetchAllChats", c, Len(saved), TRUE, failed,
                                      <<>>, <<>>)
              ELSE \E messages \in UNION {
                        {CombineContext(records, similarMessages, recentMessages, MaxCount) :
                            recentMessages \in
                              (IF MaxCount - Len(similarMessages) > 0
                                 THEN QdrantGetRecentMessages(records, contextId,
                                                    MaxCount - Len(similarMessages))
                                 ELSE {<<>>})} :
                        similarMessages \in searchSimilar(records, contextId,
                                                          SimilarShare(MaxCount))} :
                   \E summary \in (IF failed = "summary" THEN {<<>>}
                                   ELSE SummaryChoices(records, contextId)) :
                     fetched' = Fetched("fetchAllChats", c, Len(saved), FALSE, failed,
                                        HistoryOf(records, messages), summary)
    /\ UNCHANGED <<spc, backend, records, clock, uuids, saved, cvars, ovars, avars, dvars, pvars, rvars>>
(***************************************************************************)
(* PART 4.  The agents: BedrockLLMAgent, GrokAgent, PerplexityAgent.       *)
(*                                                                         *)
(* A prompt is a sequence of tokens: a literal piece of text, or a         *)
(* placeholder written {{KEY}} in the template.  A streamed text is the    *)
(* sequence of its fragments.                                              *)
(***************************************************************************)
AgentKinds == {"bedrock", "grok", "perplexity"}
DefaultMaxRecursions == 20

Lit(s) == [kind |-> "lit", v |-> s]
Placeholder(key) == [kind |-> "ph", v |-> key]
TextValue(t) == [arr |-> FALSE, v |-> t]
ArrayValue(a) == [arr |-> TRUE, v |-> a]

\* The expression /{{(\w+)}}/g matches the placeholders whose key is made
\* of word characters only; of the keys used here, "my-key" is not.
IsWord(key) == key # "my-key"

\* allVariables is a plain object: `key in allVariables` also holds for the
\* properties it inherits from Object.prototype, and reading one of them
\* gives the inherited function, which is rendered as its source text.
ObjectPrototypeKeys == {"constructor"}
InOperator(key, variables) == key \in DOMAIN variables \/ key \in ObjectPrototypeKeys
GetProperty(variables, key) ==
    IF key \in DOMAIN variables THEN variables[key]
    ELSE TextValue(<<Lit("function Object() { [native code] }")>>)

RECURSIVE join(_)
join(value) ==
    IF value = <<>> THEN <<>>
    ELSE IF Len(value) = 1 THEN value[1]
    ELSE value[1] \o <<Lit("\n")>> \o join(Tail(value))

RECURSIVE replaceplaceholders(_, _)
replaceplaceholders(template, variables) ==
    IF template = <<>> THEN <<>>
    ELSE LET match == Head(template)
             replacement ==
               IF match.kind = "ph" /\ IsWord(match.v) /\ InOperator(match.v, variables)
                 THEN LET value == GetProperty(variables, match.v)
                      IN  IF value.arr THEN join(value.v) ELSE value.v
                 ELSE <<match>>
         IN  replacement \o replaceplaceholders(Tail(template), variables)

updateSystemPrompt(prompt) ==
    [prompt EXCEPT !.system = replaceplaceholders(prompt.template, prompt.variables)]

NoVariables == [key \in {} |-> TextValue(<<>>)]
DefaultTemplate == <<Lit("You are a agent.")>>
\* A template is absent ('' or undefined) or one of two texts.
Templates ==
    { <<>>,
      <<Lit("Hi "), Placeholder("NAME"), Lit(": "), Placeholder("ITEMS"), Placeholder("MISSING")>>,
      <<Placeholder("NAME"), Placeholder("constructor"), Placeholder("my-key")>> }
\* The value of NAME may itself contain the text of a placeholder.
VariableSets ==
    { NoVariables,
      "NAME" :> TextValue(<<Lit("Ann")>>),
      ("NAME" :> TextValue(<<Lit("Ann, "), Placeholder("ITEMS")>>))
         @@ ("ITEMS" :> ArrayValue(<<(<<Lit("a")>>), (<<Lit("b")>>)>>)),
      ("NAME" :> TextValue(<<Lit("Ann")>>)) @@ ("my-key" :> TextValue(<<Lit("x")>>)) }
NotGiven == [given |-> FALSE, v |-> NoVariables]
VariablesArguments == {NotGiven} \cup {[given |-> TRUE, v |-> v] : v \in VariableSets}

\* The prompt fields after construction without a customSystemPrompt.
InitialPrompt == [template |-> DefaultTemplate, variables |-> NoVariables, system |-> <<>>]

NoRun ==
    [calls |-> 0, chunks |-> 0, produced |-> <<>>, yielded |-> <<>>, inputString |-> <<>>,
     toolUse |-> FALSE, recursions |-> 0, handled |-> <<>>, failure |-> "none",
     stopReason |-> "none", resent |-> <<>>]
NoOut == [kind |-> "none", role |-> "none", text |-> <<>>]
Returned(role, text) == [kind |-> "message", role |-> role, text |-> text]
Thrown == [kind |-> "thrown", role |-> "none", text |-> <<>>]
Generator == [kind |-> "stream", role |-> "none", text |-> <<>>]

\* setSystemPrompt(template?, variables?), also called by the constructor
\* when the options carry a customSystemPrompt.
SetSystemPrompt ==
    /\ apc = "idle"
    /\ \E template \in Templates, variables \in VariablesArguments :
         aprompt' = updateSystemPrompt(
                       [aprompt EXCEPT
                          !.template = IF template # <<>> THEN template ELSE @,
                          !.variables = IF variables.given THEN variables.v ELSE @])
    /\ UNCHANGED <<akind, aconf, apc, areqs, arun, aout, cvars, ovars, svars, dvars, pvars, rvars>>

\* The text fragments a backend streams; a fragment may be the empty string.
TextDeltas == {"Hel", "lo", ""}
FinalText == <<"Hello">>
PerplexityErrorText == <<"An error occured while connecting to perplexity.">>

\* A generator that forgets what it yielded before.
YieldLast(yielded, text) == IF text # "" THEN <<text>> ELSE yielded
\* `yield text` under `if (text)`.
Yield(yielded, text) == IF text # "" THEN Append(yielded, text) ELSE yielded

\* toolConfig?.toolMaxRecursions || defaultMaxRecursions
maxRecursions(conf) == IF conf.tools THEN ToolMaxRecursions ELSE DefaultMaxRecursions

\* JSON.parse(inputString): the tool-input deltas of one model call make one
\* document; the empty string and two documents in a row are a SyntaxError.
\* A delta is written as the number of the model call it arrived in.
JSONParses(inputString) ==
    /\ inputString # <<>>
    /\ \A i \in 1..Len(inputString) : inputString[i] = inputString[1]

\* BedrockLLMAgent.processRequest up to the first model call.
BedrockProcessRequest ==
    /\ akind = "bedrock" /\ apc = "idle" /\ areqs < MaxRequests
    /\ areqs' = areqs + 1
    /\ aprompt' = updateSystemPrompt(aprompt)
    /\ arun' = [NoRun EXCEPT !.recursions = maxRecursions(aconf)]
    /\ IF aconf.streaming
         THEN aout' = Generator /\ apc' = "send"
         ELSE aout' = NoOut /\ apc' = "loop"
    /\ UNCHANGED <<akind, aconf, cvars, ovars, svars, dvars, pvars, rvars>>

\* One turn of the do-while loop of the non-streaming branch:
\* handleSingleResponse, then the tool handler or the final message.
BedrockHandleSingleResponse ==
    /\ akind = "bedrock" /\ apc = "loop"
    /\ \E response \in {"error", "no output", "text", "toolUse"} :
       \E handler \in (IF response = "toolUse" THEN {"ok", "throws"} ELSE {"ok"}) :
         LET run == [arun EXCEPT !.calls = @ + 1]
         IN  CASE response \in {"error", "no output"} ->
                    /\ arun' = [run EXCEPT !.failure = response]
                    /\ aout' = Thrown /\ apc' = "idle"
               [] response = "toolUse" /\ (~aconf.tools \/ handler = "throws") ->
                    /\ arun' = [run EXCEPT !.failure = "tool"]
                    /\ aout' = Thrown /\ apc' = "idle"
               [] response = "toolUse" /\ aconf.tools /\ handler = "ok" ->
                    /\ arun' = [run EXCEPT !.recursions = @ - 1,
                                           !.handled = Append(@, [call |-> run.calls,
                                                                   input |-> <<run.calls>>])]
                    /\ IF run.recursions - 1 > 0
                         THEN aout' = aout /\ apc' = "loop"
                         ELSE aout' = Returned("user", <<>>) /\ apc' = "idle"
               [] response = "text" ->
                    /\ arun' = [run EXCEPT !.recursions = @ - 1]
                    /\ aout' = Returned("assistant", FinalText) /\ apc' = "idle"
    /\ UNCHANGED <<akind, aconf, areqs, aprompt, cvars, ovars, svars, dvars, pvars, rvars>>

\* handleStreamingResponse: client.send(new ConverseStreamCommand(input)).
BedrockStreamSend ==
    /\ akind = "bedrock" /\ apc = "send"
    /\ \E response \in {"error", "no stream", "stream"} :
         IF response = "stream"
           THEN /\ arun' = [arun EXCEPT !.calls = @ + 1, !.stopReason = "none"]
                /\ aout' = aout /\ apc' = "chunks"
           ELSE /\ arun' = [arun EXCEPT !.calls = @ + 1, !.failure = response]
                /\ aout' = Thrown /\ apc' = "idle"
    /\ UNCHANGED <<akind, aconf, areqs, aprompt, cvars, ovars, svars, dvars, pvars, rvars>>

BedrockChunks ==
    {[type |-> "text", v |-> f] : f \in TextDeltas}
      \cup {[type |-> t, v |-> ""] :
              t \in {"toolDelta", "stop tool_use", "stop end_turn", "stop other", "other",
                     "END", "ERROR"}}

\* handleStreamingResponse: one chunk of response.stream, the end of the
\* stream (and the loop condition), or the stream failing.  The backend sends
\* one messageStop per response, and after it only metadata.
BedrockStreamChunk ==
    /\ akind = "bedrock" /\ apc = "chunks"
    /\ \E chunk \in BedrockChunks :
       \E handler \in (IF chunk.type = "stop tool_use" THEN {"ok", "throws"} ELSE {"ok"}) :
         /\ chunk.type \in {"END", "ERROR"} \/ arun.chunks < MaxChunks
         /\ chunk.type \in {"other", "END", "ERROR"} \/ arun.stopReason = "none"
         /\ LET run == [arun EXCEPT !.chunks = IF chunk.type \in {"END", "ERROR"} THEN @ ELSE @ + 1]
            IN  CASE chunk.type = "text" ->
                       /\ arun' = [run EXCEPT !.produced = Append(@, chunk.v),
                                              !.yielded = Yield(@, chunk.v)]
                       /\ aout' = aout /\ apc' = apc
                  [] chunk.type = "toolDelta" ->
                       /\ arun' = [run EXCEPT !.inputString = Append(@, run.calls)]
                       /\ aout' = aout /\ apc' = apc
                  [] chunk.type = "stop tool_use" ->
                       IF JSONParses(run.inputString) /\ aconf.tools /\ handler = "ok"
                         THEN /\ arun' = [run EXCEPT !.handled = Append(@, [call |-> run.calls,
                                                                            input |-> run.inputString]),
                                                     !.toolUse = TRUE,
                                                     !.stopReason = "tool_use"]
                              /\ aout' = aout /\ apc' = apc
                         ELSE /\ arun' = [run EXCEPT !.stopReason = "tool_use",
                                                     !.failure =
                                                        IF ~JSONParses(run.inputString)
                                                          THEN "parse"
                                                        ELSE IF ~aconf.tools THEN "tool config"
                                                        ELSE "tool handler"]
                              /\ aout' = Thrown /\ apc' = "idle"
                  [] chunk.type = "stop end_turn" ->
                       /\ arun' = [run EXCEPT !.toolUse = FALSE, !.stopReason = "end_turn"]
                       /\ aout' = aout /\ apc' = apc
                  [] chunk.type = "stop other" ->
                       /\ arun' = [run EXCEPT !.stopReason = "max_tokens"]
                       /\ aout' = aout /\ apc' = apc
                  [] chunk.type = "other" ->
                       /\ arun' = run
                       /\ aout' = aout /\ apc' = apc
                  [] chunk.type = "END" ->
                       LET again == run.toolUse /\ run.recursions - 1 > 0
                       IN  /\ arun' = [run EXCEPT
                                         !.recursions = IF run.toolUse THEN @ - 1 ELSE @,
                                         !.resent = IF again THEN Append(@, run.stopReason) ELSE @]
                           /\ aout' = aout
                           /\ apc' = IF again THEN "send" ELSE "idle"
                  [] chunk.type = "ERROR" ->
                       /\ arun' = [run EXCEPT !.failure = "stream"]
                       /\ aout' = Thrown /\ apc' = "idle"
    /\ UNCHANGED <<akind, aconf, areqs, aprompt, cvars, ovars, svars, dvars, pvars, rvars>>

\* GrokAgent.processRequest up to the call of the API.
GrokProcessRequest ==
    /\ akind = "grok" /\ apc = "idle" /\ areqs < MaxRequests
    /\ areqs' = areqs + 1
    /\ aprompt' = updateSystemPrompt(aprompt)
    /\ arun' = NoRun
    /\ IF aconf.streaming
         THEN aout' = Generator /\ apc' = "send"
         ELSE aout' = NoOut /\ apc' = "call"
    /\ UNCHANGED <<akind, aconf, cvars, ovars, svars, dvars, pvars, rvars>>

GrokHandleSingleResponse ==
    /\ akind = "grok" /\ apc = "call"
    /\ \E chatCompletion \in {"error", "no choices", "not a string", "text"} :
         IF chatCompletion = "text"
           THEN /\ arun' = [arun EXCEPT !.calls = @ + 1]
                /\ aout' = Returned("assistant", FinalText)
           ELSE /\ arun' = [arun EXCEPT !.calls = @ + 1, !.failure = chatCompletion]
                /\ aout' = Thrown
    /\ apc' = "idle"
    /\ UNCHANGED <<akind, aconf, areqs, aprompt, cvars, ovars, svars, dvars, pvars, rvars>>

\* GrokAgent.handleStreamingResponse: the create call.
GrokStreamCreate ==
    /\ akind = "grok" /\ apc = "send"
    /\ \E response \in {"error", "stream"} :
         IF response = "stream"
           THEN /\ arun' = [arun EXCEPT !.calls = @ + 1]
                /\ aout' = aout /\ apc' = "chunks"
           ELSE /\ arun' = [arun EXCEPT !.calls = @ + 1, !.failure = response]
                /\ aout' = Thrown /\ apc' = "idle"
    /\ UNCHANGED <<akind, aconf, areqs, aprompt, cvars, ovars, svars, dvars, pvars, rvars>>

GrokChunks ==
    {[type |-> "text", v |-> f] : f \in TextDeltas}
      \cup {[type |-> t, v |-> ""] : t \in {"other", "END", "ERROR"}}

\* GrokAgent.handleStreamingResponse: one chunk, the end of the stream, or
\* the stream failing.
GrokStreamChunk ==
    /\ akind = "grok" /\ apc = "chunks"
    /\ \E chunk \in GrokChunks :
         /\ chunk.type \in {"END", "ERROR"} \/ arun.chunks < MaxChunks
         /\ CASE chunk.type = "text" ->
                   /\ arun' = [arun EXCEPT !.chunks = @ + 1,
                                           !.produced = Append(@, chunk.v),
                                           !.yielded = Yield(@, chunk.v)]
                   /\ aout' = aout /\ apc' = apc
              [] chunk.type = "other" ->
                   /\ arun' = [arun EXCEPT !.chunks = @ + 1]
                   /\ aout' = aout /\ apc' = apc
              [] chunk.type = "END" ->
                   /\ arun' = arun /\ aout' = aout /\ apc' = "idle"
              [] chunk.type = "ERROR" ->
                   /\ arun' = [arun EXCEPT !.failure = "stream"]
                   /\ aout' = Thrown /\ apc' = "idle"
    /\ UNCHANGED <<akind, aconf, areqs, aprompt, cvars, ovars, svars, dvars, pvars, rvars>>

\* PerplexityAgent.processRequest: the call of the API sits in a try whose
\* catch returns a message.
PerplexityProcessRequest ==
    /\ akind = "perplexity" /\ apc = "idle" /\ areqs < MaxRequests
    /\ areqs' = areqs + 1
    /\ aprompt' = updateSystemPrompt(aprompt)
    /\ \E perplexityResp \in {"error", "no data", "no choices", "not a string", "text"} :
         IF perplexityResp = "text"
           THEN /\ arun' = [NoRun EXCEPT !.calls = 1]
                /\ aout' = Returned("assistant", FinalText)
           ELSE /\ arun' = [NoRun EXCEPT !.calls = 1, !.failure = perplexityResp]
                /\ aout' = Returned("assistant", PerplexityErrorText)
    /\ UNCHANGED <<akind, aconf, apc, cvars, ovars, svars, dvars, pvars, rvars>>


(***************************************************************************)
(* PART 5.  DynamoDbChatStorage and its document client.                   *)
(***************************************************************************)
\* The client the parent constructor creates, and two a subclass may set.
DocClients == {"parent", "custom", "local"}

\* An entry of the log: the call (its number and operation), and for a
\* command sent, the command and the client it was sent to.
DEv(op, client, cmd, call) == [op |-> op, client |-> client, cmd |-> cmd, call |-> call]

\* A subclass that ignores the client it is given.
setDocClientIgnored(current, client) == current
\* this.docClient after setDocClient(client)
setDocClient(current, client) == client

SetDocClient ==
    /\ dcalls < MaxDynamoCalls
    /\ docClient # "none"
    /\ \E client \in DocClients \ {"parent"} :
         /\ docClient' = setDocClient(docClient, client)
         /\ dlog' = Append(dlog, DEv("setDocClient", client, "none", dcalls + 1))
    /\ dcalls' = dcalls + 1
    /\ UNCHANGED <<cvars, ovars, svars, avars, pvars, rvars>>

\* fetchChat: one GetCommand sent through the document client.
DynamoFetchChat ==
    /\ dcalls < MaxDynamoCalls
    /\ docClient # "none"
    /\ dlog' = Append(dlog, DEv("fetchChat", docClient, "GetCommand", dcalls + 1))
    /\ dcalls' = dcalls + 1
    /\ UNCHANGED <<docClient, cvars, ovars, svars, avars, pvars, rvars>>

\* saveChatMessage: the conversation is read, the message appended, and the
\* conversation written back.
DynamoSaveChatMessage ==
    /\ dcalls < MaxDynamoCalls
    /\ docClient # "none"
    /\ dlog' = dlog \o << DEv("saveChatMessage", docClient, "GetCommand", dcalls + 1),
                          DEv("saveChatMessage", docClient, "PutCommand", dcalls + 1) >>
    /\ dcalls' = dcalls + 1
    /\ UNCHANGED <<docClient, cvars, ovars, svars, avars, pvars, rvars>>


(***************************************************************************)
(* PART 6.  One context of a vector storage over many saves.               *)
(*                                                                         *)
(* storeMessage reads the index only through the number of records its     *)
(* queries match, so the context is kept here as the number of its active  *)
(* records (messages and summaries alike: the filter of getRecentMessages  *)
(* is contextId and isActive).  The code is the same in PineconeStorage    *)
(* and QdrantStorage except where noted.                                   *)
(***************************************************************************)
\* (userId, sessionId): a direct-message session, a plain session id, a
\* channel#thread session id, and a channel#thread session id whose channel
\* part is the user id.
PConversations ==
    { [userId |-> <<"u1">>, sessionId |-> <<"u1">>],
      [userId |-> <<"u1">>, sessionId |-> <<"s1">>],
      [userId |-> <<"u1">>, sessionId |-> <<"c1", "t1">>],
      [userId |-> <<"u1">>, sessionId |-> <<"u1", "t1">>] }
NoConv == [userId |-> <<>>, sessionId |-> <<>>]
NoStore == [messageIndex |-> 0, summarise |-> FALSE, written |-> FALSE]
NoContext == [done |-> FALSE, contextId |-> ContextId("none", <<>>, <<>>)]

Min(a, b) == IF a <= b THEN a ELSE b

\* The message saveChatMessage builds for (userId, sessionId).
BuiltMessage(conv) ==
    LET parts == parseSessionId(conv.sessionId)
    IN  [userId |-> conv.userId, channelId |-> parts[1], threadTs |-> parts[2],
         isDM |-> (conv.userId = conv.sessionId)]

\* deactivateOldMessages(contextId, keepRecent) on `active` records: of the
\* (at most 1000) records the query returns, those past the first keepRecent
\* are deactivated.  The number of records left active.
ActiveAfterDeactivate(active, keepRecent) ==
    LET messages == Min(active, RecentLimit)
    IN  IF messages <= keepRecent THEN active ELSE active - (messages - keepRecent)

\* storeMessage as called by saveChatMessage.  QdrantStorage's
\* createContextSummary swallows its errors, so its summary may be missing.
StoreMessage ==
    /\ pconv \in PConversations
    /\ pstored < MaxStored
    /\ LET message == BuiltMessage(pconv)
           contextType == getContextType(message)
           messageIndex == Min(pcount, RecentLimit)
           maxActiveMessages ==
               IF contextType = "channel_thread" THEN PruneLimitChannel ELSE PruneLimitDM
           pruned == ActiveAfterDeactivate(pcount + 1, maxActiveMessages)
           summarise == messageIndex > 0 /\ messageIndex % SummaryEvery = 0
       IN  \E written \in
                (IF summarise /\ Min(pruned, SummaryWindow) >= SummaryMinMessages
                   THEN (IF backend = "qdrant" THEN BOOLEAN ELSE {TRUE})
                   ELSE {FALSE}) :
             /\ pcount' = pruned + (IF written THEN 1 ELSE 0)
             /\ plast' = [messageIndex |-> messageIndex, summarise |-> summarise,
                          written |-> written]
    /\ pstored' = pstored + 1
    /\ pfetch' = NoContext
    /\ UNCHANGED <<pconv, cvars, ovars, svars, avars, dvars, rvars>>

\* fetchAllChats up to the context id getRelevantContext queries.
\* PineconeStorage passes isDM: userId === channelId; QdrantStorage passes
\* no isDM at all.
GetRelevantContext ==
    /\ pconv \in PConversations
    /\ ~pfetch.done
    /\ LET parts == parseSessionId(pconv.sessionId)
           contextId == generateContextId(
               [userId |-> pconv.userId, channelId |-> parts[1], threadTs |-> parts[2],
                isDM |-> IF backend = "pinecone" THEN pconv.userId = parts[1] ELSE FALSE])
       IN  pfetch' = [done |-> TRUE, contextId |-> contextId]
    /\ UNCHANGED <<pconv, pcount, pstored, plast, cvars, ovars, svars, avars, dvars, rvars>>


(***************************************************************************)
(* PART 7.  Two saveChatMessage calls on one context, step by step.        *)
(*                                                                         *)
(* Every await of storeMessage is a point where the other call may run.    *)
(* The records the context held before the two calls are kept as a number  *)
(* (they are older than both new messages); the two new messages are kept  *)
(* as records with their ids.                                              *)
(***************************************************************************)
Callers == {"first", "second"}
NoId == [ctx |-> ContextId("none", <<>>, <<>>), unique |-> 0]
NoDrop == [prior |-> 0, summaries |-> 0, messages |-> {}]
IdleCall == [pc |-> "idle", id |-> NoId, messageIndex |-> 0, todo |-> NoDrop]
NoRace ==
    [conv |-> NoConv, start |-> 0, prior |-> 0, dropped |-> 0, summaries |-> 0,
     droppedSummaries |-> 0, uuid |-> 0, index |-> <<>>,
     call |-> [c \in Callers |-> IdleCall]]

\* maxActiveMessages of storeMessage for the context of a conversation.
MaxActiveMessages(conv) ==
    IF getContextType(BuiltMessage(conv)) = "channel_thread"
      THEN PruneLimitChannel ELSE PruneLimitDM

\* The numbers of records the context may hold before the two calls: none,
\* one short of a summary, at a summary, and with room for two and for one
\* more record under the pruning limit.
RacePriors(conv) ==
    {0, SummaryEvery - 1, SummaryEvery,
     MaxActiveMessages(conv) - 2, MaxActiveMessages(conv) - 1}

\* The positions of the active message records of the two calls.
ActiveMessages(r) == {i \in Indices(r.index) : r.index[i].isActive}
\* What a query with the contextId / isActive filter matches.
RaceActive(r) == r.prior + r.summaries + Cardinality(ActiveMessages(r))

\* QdrantStorage.storeMessage: const pointId = uuidv4()
pointId(message, messageIndex, uuid) ==
    [ctx |-> ContextId("none", <<>>, <<>>), unique |-> uuid]

\* saveChatMessage up to the call of storeMessage: PineconeStorage draws the
\* record id here, QdrantStorage leaves it empty.
RaceSaveChatMessage(c) ==
    /\ rcall.conv \in PConversations
    /\ rcall.call[c].pc = "idle"
    /\ LET parts == parseSessionId(rcall.conv.sessionId)
       IN  rcall' =
             IF backend = "pinecone"
               THEN [rcall EXCEPT
                       !.call[c].pc = "recent",
                       !.call[c].id = generatePineconeId(parts[1], parts[2],
                                          rcall.conv.userId, rcall.uuid + 1),
                       !.uuid = @ + 1]
               ELSE [rcall EXCEPT !.call[c].pc = "recent"]
    /\ UNCHANGED <<cvars, ovars, svars, avars, dvars, pvars>>

\* storeMessage: messageIndex = (await getRecentMessages(contextId, 1000)).length;
\* QdrantStorage draws the point id right after.
RaceGetRecentMessages(c) ==
    /\ rcall.call[c].pc = "recent"
    /\ LET messageIndex == Min(RaceActive(rcall), RecentLimit)
       IN  rcall' =
             IF backend = "qdrant"
               THEN [rcall EXCEPT
                       !.call[c].pc = "upsert",
                       !.call[c].messageIndex = messageIndex,
                       !.call[c].id = pointId(BuiltMessage(rcall.conv), messageIndex,
                                              rcall.uuid + 1),
                       !.uuid = @ + 1]
               ELSE [rcall EXCEPT !.call[c].pc = "upsert",
                                  !.call[c].messageIndex = messageIndex]
    /\ UNCHANGED <<cvars, ovars, svars, avars, dvars, pvars>>

\* storeMessage: the upsert of the record (storePoints of the point).
RaceUpsert(c) ==
    /\ rcall.call[c].pc = "upsert"
    /\ rcall' = [rcall EXCEPT
                   !.call[c].pc = "prune",
                   !.index = upsert(@, [id |-> rcall.call[c].id, by |-> c,
                                        isActive |-> TRUE,
                                        messageIndex |-> rcall.call[c].messageIndex])]
    /\ UNCHANGED <<cvars, ovars, svars, avars, dvars, pvars>>

\* messages.slice(keepRecent) for an answer of `messages` records: how many
\* of the older records, of the summaries and which of the new messages are
\* in it.  PineconeStorage's query returns the records in an order the index
\* chooses; QdrantStorage's scroll returns them newest first, so the older
\* records go first.
ToDeactivate(r, messages, keepRecent) ==
    LET k == messages - keepRecent
    IN  {d \in [prior : 0..Min(k, r.prior), summaries : 0..Min(k, r.summaries),
                messages : SUBSET ActiveMessages(r)] :
            /\ d.prior + d.summaries + Cardinality(d.messages) = k
            /\ backend = "qdrant" => d.prior = Min(k, r.prior)}

\* deactivateOldMessages up to its writes: the query and the slice.
RaceDeactivateOldMessages(c) ==
    /\ rcall.call[c].pc = "prune"
    /\ LET messages == Min(RaceActive(rcall), RecentLimit)
           keepRecent == MaxActiveMessages(rcall.conv)
       IN  IF messages <= keepRecent
             THEN rcall' = [rcall EXCEPT !.call[c].pc = "summary"]
             ELSE \E d \in ToDeactivate(rcall, messages, keepRecent) :
                    rcall' = [rcall EXCEPT !.call[c].pc = "deactivate",
                                           !.call[c].todo = d]
    /\ UNCHANGED <<cvars, ovars, svars, avars, dvars, pvars>>

\* The records `w` written with isActive: false.  A record the other call
\* deactivated in the meantime stays as it is; `p` and `s` of the older
\* records and summaries in w were still active.
Deactivated(r, w, p, s) ==
    [r EXCEPT !.prior = @ - p, !.dropped = @ + p,
              !.summaries = @ - s, !.droppedSummaries = @ + s,
              !.index = [i \in Indices(@) |->
                           IF i \in w.messages THEN [@[i] EXCEPT !.isActive = FALSE]
                           ELSE @[i]]]

\* The parts of the slice one write covers: PineconeStorage upserts the
\* records one by one, QdrantStorage sets the payload of all in one call.
Writes(todo) ==
    IF backend = "qdrant" THEN {todo}
    ELSE {w \in [prior : 0..Min(1, todo.prior), summaries : 0..Min(1, todo.summaries),
                 messages : {m \in SUBSET todo.messages : Cardinality(m) <= 1}] :
            w.prior + w.summaries + Cardinality(w.messages) = 1}

\* deactivateOldMessages: one write.
RaceDeactivateWrite(c) ==
    /\ rcall.call[c].pc = "deactivate"
    /\ \E w \in Writes(rcall.call[c].todo) :
         \E p \in 0..w.prior, s \in 0..w.summaries :
           /\ p <= rcall.prior /\ w.prior - p <= rcall.dropped
           /\ s <= rcall.summaries /\ w.summaries - s <= rcall.droppedSummaries
           /\ LET rest == [prior |-> rcall.call[c].todo.prior - w.prior,
                           summaries |-> rcall.call[c].todo.summaries - w.summaries,
                           messages |-> rcall.call[c].todo.messages \ w.messages]
              IN  rcall' = [Deactivated(rcall, w, p, s) EXCEPT
                              !.call[c].todo = rest,
                              !.call[c].pc = IF rest = NoDrop THEN "summary"
                                             ELSE "deactivate"]
    /\ UNCHANGED <<cvars, ovars, svars, avars, dvars, pvars>>

\* if (messageIndex > 0 && messageIndex % 50 === 0) createContextSummary:
\* fewer than 10 recent records write nothing; QdrantStorage swallows the
\* errors of the call, so its summary may be missing.
RaceCreateContextSummary(c) ==
    /\ rcall.call[c].pc = "summary"
    /\ rcall.call[c].messageIndex > 0
    /\ rcall.call[c].messageIndex % SummaryEvery = 0
    /\ \E written \in
            (IF Min(RaceActive(rcall), SummaryWindow) >= SummaryMinMessages
               THEN (IF backend = "qdrant" THEN BOOLEAN ELSE {TRUE})
               ELSE {FALSE}) :
          rcall' = [rcall EXCEPT
                      !.call[c].pc = "done",
                      !.summaries = IF written THEN @ + 1 ELSE @,
                      !.uuid = IF written THEN @ + 1 ELSE @]
    /\ UNCHANGED <<cvars, ovars, svars, avars, dvars, pvars>>

\* storeMessage and saveChatMessage return without a summary.
RaceReturn(c) ==
    /\ rcall.call[c].pc = "summary"
    /\ ~(rcall.call[c].messageIndex > 0 /\ rcall.call[c].messageIndex % SummaryEvery = 0)
    /\ rcall' = [rcall EXCEPT !.call[c].pc = "done"]
    /\ UNCHANGED <<cvars, ovars, svars, avars, dvars, pvars>>


ClassifierIdle ==
    /\ cls = "off" /\ cpc = "off" /\ retry = FALSE /\ executionCount = 0
    /\ outcomes = <<>> /\ ctrace = <<>> /\ cresult = <<>> /\ cerror = "none"
    /\ agents = InitialAgents

OrchestratorIdle ==
    /\ opc = "off"
    /\ osetup = NoSetup
    /\ oconf = [useDefault |-> TRUE, defaultAgent |-> NullAgent]
    /\ oreq = [streaming |-> FALSE, prior |-> FALSE]
    /\ oclass = NoClass /\ oselected = NullAgent /\ oevents = <<>>
    /\ ostream = NoStream /\ oresp = NoResp /\ chats = InitialChats(FALSE)

StorageIdle ==
    /\ spc = "off" /\ backend = "none" /\ records = <<>> /\ clock = 0 /\ uuids = 0 /\ saved = <<>>
    /\ fetched = NoFetch

DynamoIdle == docClient = "none" /\ dcalls = 0 /\ dlog = <<>>

PruningIdle ==
    /\ pconv = NoConv /\ pcount = 0 /\ pstored = 0 /\ plast = NoStore /\ pfetch = NoContext

RaceIdle == rcall = NoRace

AgentIdle ==
    /\ akind = "none" /\ aconf = [streaming |-> FALSE, tools |-> FALSE] /\ apc = "off"
    /\ areqs = 0 /\ aprompt = InitialPrompt /\ arun = NoRun /\ aout = NoOut

InitClassifier ==
    /\ cls \in Classifiers
    /\ cpc = "call"
    /\ retry = TRUE
    /\ executionCount = 0
    /\ outcomes = <<>>
    /\ ctrace = <<>>
    /\ cresult = <<>>
    /\ cerror = "none"
    /\ agents = InitialAgents
    /\ OrchestratorIdle
    /\ StorageIdle
    /\ AgentIdle
    /\ DynamoIdle
    /\ PruningIdle
    /\ RaceIdle

NextClassifier ==
    \/ AnthropicMultiProcessRequest
    \/ AnthropicSingleProcessRequest
    \/ DelayElapsed
    \/ OpenAIProcessRequest

SpecClassifier == InitClassifier /\ [][NextClassifier]_vars

\* The orchestrator after construction, a request arriving: the configuration
\* is fixed from here on.
InitOrchestrator ==
    /\ opc = "start"
    /\ osetup = NoSetup
    /\ oconf \in [useDefault : BOOLEAN, defaultAgent : {DefaultAgentId, NullAgent}]
    /\ oreq \in [streaming : BOOLEAN, prior : BOOLEAN]
    /\ oclass = NoClass
    /\ oselected = NullAgent
    /\ oevents = <<>>
    /\ ostream = NoStream
    /\ oresp = NoResp
    /\ chats = InitialChats(oreq.prior)
    /\ ClassifierIdle
    /\ StorageIdle
    /\ AgentIdle
    /\ DynamoIdle
    /\ PruningIdle
    /\ RaceIdle

NextOrchestrator ==
    \/ SetDefaultAgent
    \/ GetDefaultAgent
    \/ FetchClassifierHistory
    \/ ClassifyAndSelect
    \/ FetchAgentHistory
    \/ InvokeAgent
    \/ PersistTurn
    \/ PullStream
    \/ StreamFails

SpecOrchestrator == InitOrchestrator /\ [][NextOrchestrator]_vars

\* An empty index.
InitStorage ==
    /\ spc = "on"
    /\ backend \in Backends
    /\ records = <<>>
    /\ clock = 0
    /\ uuids = 0
    /\ saved = <<>>
    /\ fetched = NoFetch
    /\ ClassifierIdle
    /\ OrchestratorIdle
    /\ AgentIdle
    /\ DynamoIdle
    /\ PruningIdle
    /\ RaceIdle

NextStorage ==
    \/ SaveChatMessage
    \/ FetchChat
    \/ FetchAllChats
    \/ QdrantSaveChatMessage
    \/ QdrantFetchChat
    \/ QdrantFetchAllChats

SpecStorage == InitStorage /\ [][NextStorage]_vars

\* An agent after construction: the Bedrock and Grok agents may stream, the
\* Bedrock agent may have tools.
InitAgent ==
    /\ akind \in AgentKinds
    /\ aconf \in [streaming : BOOLEAN, tools : BOOLEAN]
    /\ akind = "perplexity" => ~aconf.streaming
    /\ akind # "bedrock" => ~aconf.tools
    /\ apc = "idle"
    /\ areqs = 0
    /\ aprompt = InitialPrompt
    /\ arun = NoRun
    /\ aout = NoOut
    /\ ClassifierIdle
    /\ OrchestratorIdle
    /\ StorageIdle
    /\ DynamoIdle
    /\ PruningIdle
    /\ RaceIdle

NextAgent ==
    \/ BedrockProcessRequest
    \/ BedrockHandleSingleResponse
    \/ BedrockStreamSend
    \/ BedrockStreamChunk
    \/ GrokProcessRequest
    \/ GrokHandleSingleResponse
    \/ GrokStreamCreate
    \/ GrokStreamChunk
    \/ PerplexityProcessRequest

SpecAgent == InitAgent /\ [][NextAgent]_vars

\* An agent that answers in one piece, its prompt set any number of times.
InitPrompt ==
    /\ InitAgent
    /\ ~aconf.streaming /\ ~aconf.tools

NextPrompt ==
    \/ SetSystemPrompt
    \/ BedrockProcessRequest
    \/ BedrockHandleSingleResponse
    \/ GrokProcessRequest
    \/ GrokHandleSingleResponse
    \/ PerplexityProcessRequest

SpecPrompt == InitPrompt /\ [][NextPrompt]_vars

\* A DynamoDbChatStorage after the parent constructor.
InitDynamo ==
    /\ docClient = "parent"
    /\ dcalls = 0
    /\ dlog = <<>>
    /\ ClassifierIdle
    /\ OrchestratorIdle
    /\ StorageIdle
    /\ AgentIdle
    /\ PruningIdle
    /\ RaceIdle

NextDynamo ==
    \/ SetDocClient
    \/ DynamoFetchChat
    \/ DynamoSaveChatMessage

SpecDynamo == InitDynamo /\ [][NextDynamo]_vars

\* A storage on an empty index and the conversation that will use it.
InitPruning ==
    /\ pconv \in PConversations
    /\ pcount = 0
    /\ pstored = 0
    /\ plast = NoStore
    /\ pfetch = NoContext
    /\ spc = "off" /\ backend \in Backends /\ records = <<>> /\ clock = 0 /\ uuids = 0
    /\ saved = <<>> /\ fetched = NoFetch
    /\ ClassifierIdle
    /\ OrchestratorIdle
    /\ AgentIdle
    /\ DynamoIdle
    /\ RaceIdle

NextPruning ==
    \/ StoreMessage
    \/ GetRelevantContext

SpecPruning == InitPruning /\ [][NextPruning]_vars

\* A storage whose context holds some older records, and two callers about
\* to save a message each to it.
InitRace ==
    /\ \E conv \in PConversations :
         \E n \in RacePriors(conv) :
           rcall = [NoRace EXCEPT !.conv = conv, !.start = n, !.prior = n]
    /\ spc = "off" /\ backend \in Backends /\ records = <<>> /\ clock = 0 /\ uuids = 0
    /\ saved = <<>> /\ fetched = NoFetch
    /\ ClassifierIdle
    /\ OrchestratorIdle
    /\ AgentIdle
    /\ DynamoIdle
    /\ PruningIdle

NextRace ==
    \/ \E c \in Callers : RaceSaveChatMessage(c)
    \/ \E c \in Callers : RaceGetRecentMessages(c)
    \/ \E c \in Callers : RaceUpsert(c)
    \/ \E c \in Callers : RaceDeactivateOldMessages(c)
    \/ \E c \in Callers : RaceDeactivateWrite(c)
    \/ \E c \in Callers : RaceCreateContextSummary(c)
    \/ \E c \in Callers : RaceReturn(c)

SpecRace == InitRace /\ [][NextRace]_vars

Init ==
    \/ InitClassifier \/ InitOrchestrator \/ InitStorage \/ InitAgent \/ InitDynamo
    \/ InitPruning
    \/ InitRace
Next ==
    \/ NextClassifier \/ NextOrchestrator \/ NextStorage \/ NextAgent \/ SetSystemPrompt
    \/ NextDynamo
    \/ NextPruning
    \/ NextRace
Spec == Init /\ [][Next]_vars


(***************************************************************************)
(* CLAIMS, PART 1: the classifiers (checked under SpecClassifier).         *)
(***************************************************************************)
Last(q) == q[Len(q)]
Calls == SelectSeq(ctrace, LAMBDA e : e.ev = "call")
AllOverloaded == \A i \in 1..Len(outcomes) : outcomes[i].k = "overloaded"

\* C1 (as claimed): a classifier whose backend always answers "overloaded"
\* is retried exactly MAX_RETRIES times after the first attempt, i.e. makes
\* MAX_RETRIES + 1 model calls, before the failure is raised. Stated for the
\* Anthropic classifiers, which hold the retry loop.
C1_RetriedMaxRetriesTimes ==
    (cls \in Anthropic /\ cpc = "thrown" /\ AllOverloaded)
        => Len(Calls) = MAX_RETRIES + 1

\* What the Anthropic classifiers do instead: MaxExecutions calls in all.
C1_CodeMakesThreeCalls ==
    (cls \in Anthropic /\ cpc = "thrown" /\ AllOverloaded)
        => /\ Len(Calls) = MaxExecutions
           /\ cerror = "overloaded"

\* C2: in the Anthropic classifiers every model call after the first is
\* directly preceded by a completed delay of (k x 500) ms, k the number of
\* the retry; and when the backend answers overloaded, overloaded, success,
\* processRequest makes exactly the calls 1, 2, 3 with the delays 500 ms and
\* 1000 ms between them and returns the result parsed from the third answer.
C2_TwoRetriesWithLinearDelays ==
    cls \in Anthropic =>
      /\ \A i \in 1..Len(ctrace) :
            (ctrace[i].ev = "call" /\ ctrace[i].arg > 1)
              => /\ i > 1
                 /\ ctrace[i - 1] = Ev("delay", (ctrace[i].arg - 1) * 500)
      /\ ( /\ Len(outcomes) = 3
           /\ outcomes[1].k = "overloaded"
           /\ outcomes[2].k = "overloaded"
           /\ outcomes[3].k = "response"
           /\ cpc = "returned" )
         => /\ ctrace = << Ev("call", 1), Ev("delay", 500), Ev("call", 2),
                           Ev("delay", 1000), Ev("call", 3) >>
            /\ cerror = "none"
            /\ outcomes[3].tool
            /\ cls = "anthropicSingle" =>
                 cresult = << Result(
                     IF outcomes[3].input.top.selected_agent \in AgentIds
                       THEN outcomes[3].input.top.selected_agent ELSE NullAgent,
                     IF outcomes[3].input.top.confidence = "0.92"
                       THEN "0.92" ELSE NaN) >>
            /\ cls = "anthropicMulti" =>
                 Len(cresult) = Len(outcomes[3].input.agentsArr)

C2_Witness ==
    /\ cls \in Anthropic
    /\ cpc = "returned"
    /\ Len(outcomes) = 3
    /\ outcomes[1].k = "overloaded"
    /\ outcomes[2].k = "overloaded"
    /\ Len(cresult) > 0
    /\ cresult[1].selectedAgent = "tech"

\* A failure of the model call or of the parse that is not the overloaded
\* signal, for classifier c and backend answer o.
HardFailure(c, o) ==
    \/ o.k \in {"apiError", "netError"}
    \/ /\ o.k = "response"
       /\ \/ ~o.tool
          \/ c = "openai" /\ ~o.json
          \/ c = "anthropicSingle" /\ ~o.input.top.wf
          \/ /\ c # "anthropicSingle"
             /\ o.input.hasAgents
             /\ \E i \in 1..Len(o.input.agentsArr) :
                   \/ ~o.input.agentsArr[i].wf
                   \/ /\ o.input.agentsArr[i].selected_agent = "tech"
                      /\ ~o.s3[i]

NamesUnregistered(c, o, i) ==
    /\ o.k = "response" /\ o.tool /\ o.json
    /\ ~HardFailure(c, o)
    /\ IF c = "anthropicSingle"
         THEN i = 1 /\ o.input.top.selected_agent \notin AgentIds
         ELSE /\ o.input.hasAgents
              /\ i \in 1..Len(o.input.agentsArr)
              /\ o.input.agentsArr[i].selected_agent \notin AgentIds

\* C4: when the model names an agent that is not registered, the classifier
\* returns (it does not throw) and the result for that entry has
\* selectedAgent = null.
C4_UnknownAgentIsNull ==
    \A i \in 1..MaxEntries + 1 :
        (Len(outcomes) > 0 /\ NamesUnregistered(cls, Last(outcomes), i))
          => /\ cpc = "returned"
             /\ cerror = "none"
             /\ Len(cresult) >= i
             /\ cresult[i].selectedAgent = NullAgent

C4_Witness ==
    /\ cls = "anthropicMulti"
    /\ cpc = "returned"
    /\ Len(outcomes) > 0
    /\ NamesUnregistered(cls, Last(outcomes), 2)
    /\ cresult[1].selectedAgent = "tech"
    /\ cresult[2].selectedAgent = NullAgent


(***************************************************************************)
(* CLAIMS, PART 2: the orchestrator (checked under SpecOrchestrator).      *)
(***************************************************************************)
OEvents(kind) == SelectSeq(oevents, LAMBDA e : e.ev = kind)
Invokes == OEvents("invoke")
Classified == Len(OEvents("classify")) > 0
Answered == oresp.kind \in {"message", "stream"}

\* C5: the classifier selected no agent and USE_DEFAULT_AGENT_IF_NONE_IDENTIFIED
\* is false: routeRequest has returned exactly NO_SELECTED_AGENT_MESSAGE, no
\* agent was invoked, and no real agent's stored history has changed.
C5_NoAgentFallbackMessage ==
    (Classified /\ ~oclass.err /\ oclass.selectedAgent = NullAgent /\ ~oconf.useDefault)
      => /\ opc = "done"
         /\ oresp.kind = "message"
         /\ oresp.output = NO_SELECTED_AGENT_MESSAGE
         /\ Invokes = <<>>
         /\ \A a \in RealAgents : chats[a] = InitialChats(oreq.prior)[a]

C5_Witness ==
    /\ Classified /\ ~oclass.err /\ oclass.selectedAgent = NullAgent
    /\ ~oconf.useDefault /\ oconf.defaultAgent # NullAgent
    /\ oreq.prior
    /\ opc = "done"
    /\ chats[ClassifierScope] # <<>>

\* C6: the classifier selected no agent, USE_DEFAULT_AGENT_IF_NONE_IDENTIFIED
\* is true and a default agent is configured: only the default agent is ever
\* invoked, at most once; and a response returned comes from exactly one
\* invocation of the default agent and carries that agent's output.
C6_DefaultAgentFallback ==
    ( /\ Classified /\ ~oclass.err /\ oclass.selectedAgent = NullAgent
      /\ oconf.useDefault /\ oconf.defaultAgent # NullAgent )
      => /\ Len(Invokes) <= 1
         /\ \A i \in 1..Len(Invokes) : Invokes[i].scope = oconf.defaultAgent
         /\ opc = "done" => oresp.kind # "none"
         /\ Answered =>
              /\ Invokes = <<OEv("invoke", oconf.defaultAgent)>>
              /\ oresp.agentId = oconf.defaultAgent
              /\ oresp.kind = "message" => oresp.output = ostream.out
              /\ oresp.kind = "stream" =>
                    /\ oresp.output = ostream.yielded
                    /\ ostream.yielded \o ostream.pending = ostream.out

C6_Witness ==
    /\ Classified /\ ~oclass.err /\ oclass.selectedAgent = NullAgent
    /\ oconf.useDefault /\ oconf.defaultAgent = DefaultAgentId
    /\ opc = "done"
    /\ oresp.kind = "message"
    /\ oresp.output = <<"Hel", "lo">>
    /\ Len(chats[DefaultAgentId]) = 2

\* C7: the classifier selected an agent with some confidence: only that agent
\* is ever invoked, at most once; and a response returned comes from exactly
\* one invocation of it and its metadata carries that agent's id and the
\* classifier's confidence unchanged.
C7_SelectedAgentDispatched ==
    (Classified /\ ~oclass.err /\ oclass.selectedAgent # NullAgent)
      => /\ Len(Invokes) <= 1
         /\ \A i \in 1..Len(Invokes) : Invokes[i].scope = oclass.selectedAgent
         /\ Answered =>
              /\ Invokes = <<OEv("invoke", oclass.selectedAgent)>>
              /\ oresp.agentId = oclass.selectedAgent
              /\ oresp.confidence = oclass.confidence

C7_Witness ==
    /\ Classified /\ oclass.selectedAgent = "tech" /\ oclass.confidence = "0.92"
    /\ opc = "done"
    /\ oresp.kind = "message"
    /\ oresp.agentId = "tech"
    /\ oresp.confidence = "0.92"
    /\ oevents[Len(oevents)] = OEv("save", "tech")

\* C8: within one request the selected agent's history is fetched before the
\* agent is invoked; a turn is saved only after the agent was invoked and its
\* output is complete; and whenever a real agent's stored history differs
\* from what the request started with, it is the old history plus the user
\* message and the complete assistant text -- for a streaming response only
\* once the caller has drained the whole stream.
C8_FetchInvokePersistOrder ==
    /\ \A i \in 1..Len(oevents) :
          oevents[i].ev = "invoke" =>
             \E j \in 1..(i - 1) : oevents[j] = OEv("fetch", oevents[i].scope)
    /\ \A i \in 1..Len(oevents) :
          (oevents[i].ev = "save" /\ oevents[i].scope \in RealAgents) =>
             /\ \E j \in 1..(i - 1) : oevents[j] = OEv("invoke", oevents[i].scope)
             /\ ostream.pending = NoText
    /\ \A a \in RealAgents :
          chats[a] # InitialChats(oreq.prior)[a] =>
             /\ a = oselected
             /\ ostream.out # NoText
             /\ chats[a] = InitialChats(oreq.prior)[a] \o
                             <<Message("user", UserInput),
                               Message("assistant", ostream.out)>>
             /\ oreq.streaming =>
                   /\ ostream.pending = NoText
                   /\ ostream.yielded = ostream.out
                   /\ opc = "done"

C8_Witness ==
    /\ oreq.streaming
    /\ opc = "done"
    /\ ostream.out = <<"Hel", "lo", "lo">>
    /\ chats["tech"] = InitialChats(TRUE)["tech"] \o
                          <<Message("user", UserInput),
                            Message("assistant", <<"Hel", "lo", "lo">>)>>

\* C9: the classifier raised an error: routeRequest has ended in a
\* ClassificationError carrying CLASSIFICATION_ERROR_MESSAGE, the classifier
\* was called once only, no agent was invoked and nothing was saved.
C9_ClassificationErrorIsTerminal ==
    (Classified /\ oclass.err)
      => /\ opc = "done"
         /\ oresp = ErrorResp("ClassificationError", CLASSIFICATION_ERROR_MESSAGE)
         /\ Len(OEvents("classify")) = 1
         /\ Invokes = <<>>
         /\ OEvents("save") = <<>>
         /\ chats = InitialChats(oreq.prior)

C9_Witness ==
    /\ Classified /\ oclass.err
    /\ oconf.useDefault /\ oconf.defaultAgent = DefaultAgentId
    /\ oreq.prior
    /\ opc = "done"
    /\ oresp.error = "ClassificationError"

(***************************************************************************)
(* CLAIMS, PART 3: PineconeStorage.                                        *)
(***************************************************************************)
RECURSIVE SavedOf(_, _)
\* The messages among the first n saved that belong to conversation c.
SavedOf(c, n) ==
    IF n = 0 THEN <<>>
    ELSE IF saved[n].conv = c THEN Append(SavedOf(c, n - 1), saved[n].message)
         ELSE SavedOf(c, n - 1)

SameMessage(a, b) == a.role = b.role /\ a.text = b.text

\* C10: once more than 2 x MAX_MESSAGE_PAIRS_PER_AGENT messages of a
\* conversation have been saved, a fetchChat of that conversation returns at
\* most MAX pairs, in the order they were saved, ending with the pair saved
\* last.
C10_FetchReturnsNewestWindow ==
    (fetched.done /\ fetched.at = Len(saved)) =>
        LET S == SavedOf(fetched.conv, Len(saved))
            R == fetched.result
        IN  Len(S) > 2 * MaxPairsConfigured =>
              /\ Len(R) <= 2 * MaxPairsConfigured
              /\ Len(R) >= 2
              /\ \A k \in 1..Len(R) : SameMessage(R[k], S[Len(S) - Len(R) + k])

\* A fetch that completed, and one that did so with every backend operation
\* succeeding.
FetchReturned == fetched.done /\ ~fetched.threw
FetchUndisturbed == fetched.done /\ fetched.failed = "none"

\* C11: a fetchChat made right after a save, for the conversation saved to,
\* returns a history whose last element is the saved message, role and
\* content as they were.
C11_SaveThenFetchRoundTrip ==
    (/\ FetchUndisturbed
     /\ fetched.op = "fetchChat"
     /\ saved # <<>>
     /\ Last(saved).conv = fetched.conv) =>
        /\ ~fetched.threw
        /\ fetched.result # <<>>
        /\ Last(fetched.result) = Last(saved).message

\* C12: saveChatMessage returns the updated history of the conversation: what
\* was stored for it before, then the new message, cut to the retention
\* window.
C12_SaveReturnsUpdatedHistory ==
    \A n \in 1..Len(saved) :
        saved[n].returned = LastN(SavedOf(saved[n].conv, n), 2 * MaxPairsConfigured)

\* C13: fetching a conversation nothing was ever saved for returns an empty
\* history and does not throw, whatever the backend.
C13_EmptyConversationFetch ==
    (FetchUndisturbed /\ SavedOf(fetched.conv, Len(saved)) = <<>>) =>
        ~fetched.threw /\ fetched.result = <<>>

\* C14: every message of a returned history was saved under the triple
\* (userId, sessionId, agentId) the history was fetched for.
C14_HistoryScopedPerTriple ==
    FetchReturned =>
        \A k \in 1..Len(fetched.result) :
            saved[fetched.result[k].text].conv = fetched.conv

\* C15: a returned history lists its messages in the order they were saved,
\* also when messages were saved with equal timestamps.
C15_HistoryInSaveOrder ==
    FetchReturned =>
        \A j, k \in 1..Len(fetched.result) :
            j < k => fetched.result[j].text < fetched.result[k].text

\* C18: a fetch during which a backend operation failed fails as a whole.
C18_StorageFailsClosed ==
    (fetched.done /\ fetched.failed # "none") => fetched.threw

StreamingRun == akind \in {"bedrock", "grok"} /\ aconf.streaming
NonEmpty(fragments) == SelectSeq(fragments, LAMBDA f : f # "")

\* C16 as stated: a streaming agent yields the text fragments exactly as the
\* backend produced them: none dropped, duplicated or reordered.
C16_StreamYieldsEveryFragment ==
    StreamingRun => arun.yielded = arun.produced

\* C16, amended: a streaming agent yields the non-empty text fragments the
\* backend produced, each once and in the backend's order, never more
\* fragments than chunks received; the yielded fragments concatenate to the
\* text the backend produced.  A fragment that is the empty string is not
\* yielded.
C16_StreamYieldsNonEmptyFragments ==
    StreamingRun =>
        /\ arun.yielded = NonEmpty(arun.produced)
        /\ Len(arun.yielded) <= arun.chunks
        /\ arun.chunks <= MaxChunks

C16_Witness ==
    /\ StreamingRun /\ apc = "idle" /\ aout.kind = "stream"
    /\ arun.produced = <<"Hel", "", "lo">>
    /\ arun.yielded = <<"Hel", "lo">>

\* C17: when the backend call of an agent fails (an outage or a malformed
\* response), processRequest raises the failure; it never returns a message.
C17_AgentFailureIsRaised ==
    (apc = "idle" /\ arun.failure # "none") => aout.kind = "thrown"

\* The rendering C20 describes: a placeholder whose key is in the variables
\* becomes its value, an array joined with newlines; everything else stays.
RECURSIVE Render(_, _)
Render(template, variables) ==
    IF template = <<>> THEN <<>>
    ELSE LET token == Head(template)
             out == IF token.kind = "ph" /\ token.v \in DOMAIN variables
                      THEN IF variables[token.v].arr THEN join(variables[token.v].v)
                           ELSE variables[token.v].v
                      ELSE <<token>>
         IN  out \o Render(Tail(template), variables)

\* C20: the system prompt is the stored template with every {{KEY}} whose key
\* is in the variables replaced by its value and every other {{KEY}} left as
\* written, after setSystemPrompt and after every processRequest.
C20_RenderReplacesKnownKeys ==
    aprompt.system # <<>> => aprompt.system = Render(aprompt.template, aprompt.variables)


(***************************************************************************)
(* CLAIMS, PART 5: the classifiers again (checked under SpecClassifier).   *)
(***************************************************************************)
Success(c, o) == o.k = "response" /\ o.tool /\ o.json /\ ~HardFailure(c, o)

\* C22: every classifier retries after a transient overload: after a first
\* answer "overloaded" the request has not failed, and when the second
\* answer is a success processRequest returns its result and no error.
C22_OverloadThenSuccessSucceeds ==
    (Len(outcomes) >= 1 /\ outcomes[1].k = "overloaded") =>
        /\ Len(outcomes) = 1 => cpc # "thrown"
        /\ (Len(outcomes) = 2 /\ Success(cls, outcomes[2]))
              => cpc = "returned" /\ cerror = "none"

\* C23: a multi-intent classifier that returns gives one result per entry of
\* the model's `agents` array, in order; result i carries the confidence
\* reported in entry i and the agent resolved from entry i's selected_agent;
\* without an `agents` array the result list is empty.
C23_OneResultPerEntry ==
    (cls \in {"anthropicMulti", "openai"} /\ cpc = "returned") =>
        LET input == Last(outcomes).input
        IN  IF input.hasAgents
              THEN /\ Len(cresult) = Len(input.agentsArr)
                   /\ \A i \in 1..Len(input.agentsArr) :
                        /\ cresult[i].confidence = ParseFloat(input.agentsArr[i].confidence)
                        /\ cresult[i].selectedAgent
                              = getAgentById(input.agentsArr[i].selected_agent, InitialAgents)
              ELSE cresult = <<>>

\* C29: after processRequest returns or throws, the registry is as it was
\* before the call: every registered agent with the same description.
C29_RegistryUnchanged ==
    cpc \in {"returned", "thrown"} => agents = InitialAgents


(***************************************************************************)
(* CLAIMS, PART 6: the tool loops of BedrockLLMAgent (under SpecAgent).    *)
(***************************************************************************)
\* C24: in non-streaming mode processRequest calls the model at most
\* toolMaxRecursions (default 20) times, and a message it returns is the
\* model's answer without tool use, of role ASSISTANT, also when the model
\* asked for a tool in every call up to the limit.
C24_ReturnsLastAssistantMessage ==
    (akind = "bedrock" /\ ~aconf.streaming) =>
        /\ arun.calls <= maxRecursions(aconf)
        /\ (apc = "idle" /\ aout.kind = "message")
              => aout.role = "assistant" /\ aout.text = FinalText

\* The tool-input deltas received during model call k.
RoundDeltas(inputString, k) == SelectSeq(inputString, LAMBDA piece : piece = k)

\* C25: in streaming mode every tool-use round stands alone: the input the
\* tool handler receives in round k is made of the deltas of round k only,
\* a round whose own deltas form a document does not fail to parse, and the
\* model is called again only after a response that stopped with tool_use.
C25_ToolRoundsIndependent ==
    (akind = "bedrock" /\ aconf.streaming) =>
        /\ \A i \in 1..Len(arun.handled) :
              /\ arun.handled[i].input # <<>>
              /\ arun.handled[i].input = RoundDeltas(arun.inputString, arun.handled[i].call)
        /\ arun.failure = "parse" => RoundDeltas(arun.inputString, arun.calls) = <<>>
        /\ \A i \in 1..Len(arun.resent) : arun.resent[i] = "tool_use"


(***************************************************************************)
(* CLAIMS, PART 7: DynamoDbChatStorage (checked under SpecDynamo).         *)
(***************************************************************************)
\* The client set by the last setDocClient before position i of the log.
RECURSIVE ClientInForce(_)
ClientInForce(i) ==
    IF i = 0 THEN "parent"
    ELSE IF dlog[i].op = "setDocClient" THEN dlog[i].client
    ELSE ClientInForce(i - 1)

SentBy(call) == SelectSeq(dlog, LAMBDA e : e.cmd # "none" /\ e.call = call)

\* C21: once setDocClient(c) was called, every command of a later fetchChat
\* or saveChatMessage goes to c, none to the parent's client; and every
\* saveChatMessage sends two commands, a read and then a write.
C21_CommandsGoToTheSetClient ==
    /\ \A i \in 1..Len(dlog) :
          (dlog[i].cmd # "none" /\ \E j \in 1..i : dlog[j].op = "setDocClient")
             => dlog[i].client = ClientInForce(i) /\ dlog[i].client # "parent"
    /\ \A i \in 1..Len(dlog) :
          dlog[i].op = "saveChatMessage" =>
             /\ Len(SentBy(dlog[i].call)) = 2
             /\ SentBy(dlog[i].call)[1].cmd = "GetCommand"
             /\ SentBy(dlog[i].call)[2].cmd = "PutCommand"

C21_Witness ==
    /\ Len(dlog) = 4
    /\ dlog[1] = DEv("setDocClient", "local", "none", 1)
    /\ dlog[2] = DEv("fetchChat", "local", "GetCommand", 2)
    /\ dlog[3] = DEv("saveChatMessage", "local", "GetCommand", 3)
    /\ dlog[4] = DEv("saveChatMessage", "local", "PutCommand", 3)


(***************************************************************************)
(* CLAIMS, PART 8: pruning, summaries and context ids of the vector        *)
(* storages (checked under SpecPruning).                                   *)
(***************************************************************************)
PruneLimit(conv) ==
    IF getContextType(BuiltMessage(conv)) = "channel_thread"
      THEN PruneLimitChannel ELSE PruneLimitDM

\* C26: after every completed save the context has at most the pruning
\* limit of active records: 100 in a channel thread, 200 in a direct-message
\* context.
C26_ActiveWithinPruneLimit ==
    pstored > 0 => pcount <= PruneLimit(pconv)

\* What holds instead: a save that also writes a summary may leave one
\* record more than the limit.
C26_AtMostOneOver ==
    pstored > 0 =>
        /\ pcount <= PruneLimit(pconv) + 1
        /\ pcount > PruneLimit(pconv) => plast.written

\* C27: a save generates a summary exactly when the number of messages saved
\* to the context before it is a positive multiple of 50.
C27_SummaryEveryFiftieth ==
    pstored > 0 =>
        (plast.summarise <=> (pstored - 1 > 0 /\ (pstored - 1) % SummaryEvery = 0))

\* C28: fetchAllChats queries the context id under which saveChatMessage
\* stores the messages of the same (userId, sessionId).
C28_SameContextId ==
    pfetch.done => pfetch.contextId = generateContextId(BuiltMessage(pconv))

(***************************************************************************)
(* CLAIMS, PART 9: two concurrent saves on one context (under SpecRace).   *)
(***************************************************************************)
BothReturned == \A c \in Callers : rcall.call[c].pc = "done"

\* Each caller's message is an active record of the index, under an id of
\* its own.
BothStoredActive ==
    \E i, j \in Indices(rcall.index) :
        /\ rcall.index[i].by = "first" /\ rcall.index[j].by = "second"
        /\ rcall.index[i].id # rcall.index[j].id
        /\ rcall.index[i].isActive /\ rcall.index[j].isActive

\* C30: when two saveChatMessage calls on a context that held fewer records
\* than the pruning limit have both returned, however their steps were
\* interleaved, both messages are stored as distinct active records.
C30_BothMessagesStored ==
    (BothReturned /\ rcall.start < MaxActiveMessages(rcall.conv)) => BothStoredActive

\* The same for a context with room for both messages under the limit.
C30_BothStoredWithRoom ==
    (BothReturned /\ rcall.start + 2 <= MaxActiveMessages(rcall.conv)) => BothStoredActive

\* The two records are always stored under ids of their own; only their
\* isActive flag may be lost.
C30_NeverOverwritten ==
    BothReturned =>
        \E i, j \in Indices(rcall.index) :
            /\ rcall.index[i].by = "first" /\ rcall.index[j].by = "second"
            /\ rcall.index[i].id # rcall.index[j].id

=============================================================================
